---- MODULE Spec2Model ----
(***************************************************************************)
(* A model of the scoped content extraction and sandboxed handler          *)
(* subsystem of webcontent-api: the host DOM bridge (dom-bridge.ts), the   *)
(* QuickJS sandbox glue (sandbox.ts / html-parser.ts) and the scope        *)
(* parser and validator (scope.ts).                                        *)
(***************************************************************************)
EXTENDS Integers, Sequences, FiniteSets, TLC

(***************************************************************************)
(* Bounds of the model.                                                    *)
(***************************************************************************)
\* the largest number of node ids one bridge issues in the bridge specification
MaxIds == 4

(***************************************************************************)
(* State.                                                                  *)
(***************************************************************************)
VARIABLES
  bridge,         \* the DOMBridge under test in the bridge specification
  ret,            \* the value its last operation returned
  returned,       \* every snapshot (as <<_id, element>>) the bridge has returned
  calls,          \* the runScopeFunction calls, by call id
  quickJsLoader,  \* the module's cached loader promise: "null", "pending", ...
  loadCalls,      \* how often loadQuickJs has been called
  scopeCall,      \* the call of validateScope or parseScopeArg under test
  scopeResult,    \* what that call returned or threw
  contentCall,    \* the call of a content extraction function under test
  contentResult,  \* what that call returned
  request,        \* the HTTP request the server handles, and its environment
  response,       \* the server's response and what the handler did for it
  pages           \* the rows of the pages table

vars == <<bridge, ret, returned, calls, quickJsLoader, loadCalls,
          scopeCall, scopeResult, contentCall, contentResult,
          request, response, pages>>

bridgeVars == <<bridge, ret, returned>>
sandboxVars == <<calls, quickJsLoader, loadCalls>>
scopeVars == <<scopeCall, scopeResult>>
contentVars == <<contentCall, contentResult>>
serverVars == <<request, response, pages>>

\* what the steps of one part of the program leave alone
outsideBridge == <<sandboxVars, scopeVars, contentVars, serverVars>>
outsideSandbox == <<bridgeVars, scopeVars, contentVars, serverVars>>
outsideScope == <<bridgeVars, sandboxVars, contentVars, serverVars>>
outsideContent == <<bridgeVars, sandboxVars, scopeVars, serverVars>>
outsideServer == <<bridgeVars, sandboxVars, scopeVars, contentVars>>

(***************************************************************************)
(* Parsed documents.  linkedom's parseHTML is a library: a document is     *)
(* modelled by the element tree it yields.  Elements are numbered in       *)
(* document (pre-)order; parent[e] = 0 means that e has no parent element. *)
(***************************************************************************)
Docs ==
  << [parent |-> <<0, 1, 2, 1>>, tag |-> <<"div", "p", "span", "p">>],
     [parent |-> <<0, 1, 2, 2>>, tag |-> <<"div", "div", "p", "p">>],
     [parent |-> <<>>, tag |-> <<>>] >>

Htmls == 1..Len(Docs)

parseHTML(html) == Docs[html]

Elements(d) == 1..Len(d.parent)

(***************************************************************************)
(* Text.  A string is a sequence of atoms; an atom is one character or one *)
(* word that the code's patterns look for ("function", "fetch", ...).      *)
(***************************************************************************)
Whitespace == {" ", "\n"}

\* the atoms that consist of word characters (\w in a regular expression)
WordAtoms == {"x", "function", "fetch", "await", "document", "querySelector",
              "querySelectorAll", "closest", "div", "p", "span"}

Quotes == {"'"}

\* CSS selectors: a type selector or *, descendant combinators between them
\* ("div p"), and texts that are not valid CSS (querySelector throws on them)
Compounds == {"div", "p", "span", "*"}

Selectors == {<<"div">>, <<"p">>, <<"span">>, <<"*">>, <<"div", " ", "p">>, <<"[[">>}

SelectorValid(s) ==
  /\ Len(s) % 2 = 1
  /\ \A i \in DOMAIN s : IF i % 2 = 1 THEN s[i] \in Compounds ELSE s[i] = " "

RECURSIVE IsAncestor(_, _, _)
\* a is a proper ancestor of e
IsAncestor(d, a, e) ==
  IF d.parent[e] = 0 THEN FALSE
  ELSE d.parent[e] = a \/ IsAncestor(d, a, d.parent[e])

RECURSIVE matches(_, _, _)
\* Element.matches(selector), for a valid selector: the last compound matches
\* the element and the rest matches one of its ancestors
matches(d, e, s) ==
  /\ e # 0
  /\ (s[Len(s)] = "*" \/ d.tag[e] = s[Len(s)])
  /\ \/ Len(s) = 1
     \/ \E a \in 1..Len(d.parent) :
          /\ IsAncestor(d, a, e)
          /\ matches(d, a, SubSeq(s, 1, Len(s) - 2))

parentElement(d, e) == d.parent[e]

RECURSIVE SortedSeq(_)
\* the elements of a set of element numbers, in document order
SortedSeq(S) ==
  IF S = {} THEN <<>>
  ELSE LET m == CHOOSE x \in S : \A y \in S : x <= y
       IN <<m>> \o SortedSeq(S \ {m})

\* Element.children: the direct element children, in document order
ElementChildren(d, e) == SortedSeq({c \in Elements(d) : d.parent[c] = e})

\* the matches of querySelectorAll below a context (0: the document)
MatchSet(d, context, s) ==
  {e \in Elements(d) :
     /\ matches(d, e, s)
     /\ (context = 0 \/ IsAncestor(d, context, e))}

RECURSIVE ClosestEl(_, _, _)
\* Element.closest(selector): the element itself or its nearest ancestor; 0: none
ClosestEl(d, e, s) ==
  IF e = 0 THEN 0
  ELSE IF matches(d, e, s) THEN e
  ELSE ClosestEl(d, d.parent[e], s)

firstElementChild(d, e) ==
  LET cs == ElementChildren(d, e) IN IF cs = <<>> THEN 0 ELSE cs[1]

lastElementChild(d, e) ==
  LET cs == ElementChildren(d, e) IN IF cs = <<>> THEN 0 ELSE cs[Len(cs)]

\* the siblings of e (elements with the same parent), e included
SiblingSet(d, e) == {c \in Elements(d) : d.parent[c] = d.parent[e]}

nextElementSibling(d, e) ==
  LET later == {c \in SiblingSet(d, e) : c > e}
  IN IF later = {} THEN 0 ELSE CHOOSE x \in later : \A y \in later : x <= y

previousElementSibling(d, e) ==
  LET earlier == {c \in SiblingSet(d, e) : c < e}
  IN IF earlier = {} THEN 0 ELSE CHOOSE x \in earlier : \A y \in earlier : x >= y

(***************************************************************************)
(* DOMBridge.  A bridge is a record [doc, nodeMap, nextId]; every          *)
(* operation is an operator from a bridge to [b |-> the bridge after the   *)
(* call, r |-> the returned value].  A returned value is a record          *)
(* [kind, items]: kind "node" with one snapshot, "null", or "list".        *)
(***************************************************************************)
NewBridge(html) == [doc |-> parseHTML(html), nodeMap |-> <<>>, nextId |-> 1]

Snapshot(id, d, e) == [_id |-> id, el |-> e, tag |-> d.tag[e]]

RetNull == [kind |-> "null", items |-> <<>>]
RetNode(snap) == [kind |-> "node", items |-> <<snap>>]
RetList(snaps) == [kind |-> "list", items |-> snaps]

\* Map.get(nodeId): 0 when the id is not a key
NodeMapGet(b, nodeId) ==
  IF nodeId \in DOMAIN b.nodeMap THEN b.nodeMap[nodeId] ELSE 0

\* (a variant for C27: the id is issued but nextId is not incremented)
serializeNode_NoIncrement(b, e) ==
  [b |-> [b EXCEPT !.nodeMap = (b.nextId :> e) @@ b.nodeMap],
   r |-> Snapshot(b.nextId, b.doc, e)]

\* serializeNode issues the id nextId++ and binds it, whatever the element
serializeNode(b, e) ==
  [b |-> [b EXCEPT !.nodeMap = (b.nextId :> e) @@ b.nodeMap,
                   !.nextId = b.nextId + 1],
   r |-> Snapshot(b.nextId, b.doc, e)]

RECURSIVE serializeAll(_, _, _)
\* Array.from(elements).map(el => this.serializeNode(el)), left to right
serializeAll(b, els, acc) ==
  IF els = <<>> THEN [b |-> b, r |-> acc]
  ELSE LET one == serializeNode(b, Head(els))
       IN serializeAll(one.b, Tail(els), Append(acc, one.r))

SerializeOne(b, e) ==
  IF e = 0 THEN [b |-> b, r |-> RetNull]
  ELSE LET one == serializeNode(b, e) IN [b |-> one.b, r |-> RetNode(one.r)]

SerializeList(b, els) ==
  LET all == serializeAll(b, els, <<>>) IN [b |-> all.b, r |-> RetList(all.r)]

querySelector(b, s, context) ==
  IF ~SelectorValid(s) THEN [b |-> b, r |-> RetNull]
  ELSE LET ms == SortedSeq(MatchSet(b.doc, context, s))
       IN SerializeOne(b, IF ms = <<>> THEN 0 ELSE ms[1])

querySelectorAll(b, s, context) ==
  IF ~SelectorValid(s) THEN [b |-> b, r |-> RetList(<<>>)]
  ELSE SerializeList(b, SortedSeq(MatchSet(b.doc, context, s)))

childQuery(b, nodeId, s) ==
  LET element == NodeMapGet(b, nodeId)
  IN IF element = 0 THEN [b |-> b, r |-> RetNull]
     ELSE querySelector(b, s, element)

childQueryAll(b, nodeId, s) ==
  LET element == NodeMapGet(b, nodeId)
  IN IF element = 0 THEN [b |-> b, r |-> RetList(<<>>)]
     ELSE querySelectorAll(b, s, element)

closest(b, nodeId, s) ==
  LET element == NodeMapGet(b, nodeId)
  IN IF element = 0 \/ ~SelectorValid(s) THEN [b |-> b, r |-> RetNull]
     ELSE SerializeOne(b, ClosestEl(b.doc, element, s))

\* parent(nodeId, selector?): s = <<>> stands for the omitted (or empty) selector
parent(b, nodeId, s) ==
  LET element == NodeMapGet(b, nodeId)
  IN IF element = 0 THEN [b |-> b, r |-> RetNull]
     ELSE IF parentElement(b.doc, element) = 0 THEN [b |-> b, r |-> RetNull]
     ELSE IF s # <<>>
       THEN IF SelectorValid(s) /\ matches(b.doc, parentElement(b.doc, element), s)
              THEN SerializeOne(b, parentElement(b.doc, element))
              ELSE [b |-> b, r |-> RetNull]
       ELSE SerializeOne(b, parentElement(b.doc, element))

children(b, nodeId) ==
  LET element == NodeMapGet(b, nodeId)
  IN IF element = 0 THEN [b |-> b, r |-> RetList(<<>>)]
     ELSE SerializeList(b, ElementChildren(b.doc, element))

firstChild(b, nodeId) ==
  LET element == NodeMapGet(b, nodeId)
  IN IF element = 0 THEN [b |-> b, r |-> RetNull]
     ELSE SerializeOne(b, firstElementChild(b.doc, element))

lastChild(b, nodeId) ==
  LET element == NodeMapGet(b, nodeId)
  IN IF element = 0 THEN [b |-> b, r |-> RetNull]
     ELSE SerializeOne(b, lastElementChild(b.doc, element))

nextSibling(b, nodeId) ==
  LET element == NodeMapGet(b, nodeId)
  IN IF element = 0 THEN [b |-> b, r |-> RetNull]
     ELSE SerializeOne(b, nextElementSibling(b.doc, element))

prevSibling(b, nodeId) ==
  LET element == NodeMapGet(b, nodeId)
  IN IF element = 0 THEN [b |-> b, r |-> RetNull]
     ELSE SerializeOne(b, previousElementSibling(b.doc, element))

(***************************************************************************)
(* Function code: validateFunctionSyntax and extractSelectorsFromCode.     *)
(* The regular expressions of the source are operators over atom texts.    *)
(***************************************************************************)
\* the atom at position i; "" past either end of the text
At(t, i) == IF i \in 1..Len(t) THEN t[i] ELSE ""

RECURSIVE SkipWs(_, _)
\* \s*: the first position at or after i that holds no whitespace
SkipWs(t, i) ==
  IF i <= Len(t) /\ t[i] \in Whitespace THEN SkipWs(t, i + 1) ELSE i

RECURSIVE SkipWsBack(_, _)
\* the last position at or before i that holds no whitespace
SkipWsBack(t, i) ==
  IF i >= 1 /\ t[i] \in Whitespace THEN SkipWsBack(t, i - 1) ELSE i

\* String.prototype.trim
trim(t) == SubSeq(t, SkipWs(t, 1), SkipWsBack(t, Len(t)))

\* \b before position i, where a word atom stands
WordBoundaryBefore(t, i) == At(t, i - 1) \notin WordAtoms

\* /^\(.*\)\s*=>/ : "." matches no line terminator
ArrowStart(t) ==
  /\ At(t, 1) = "("
  /\ \E j \in 2..Len(t) :
       /\ t[j] = ")"
       /\ \A k \in 2..(j - 1) : t[k] # "\n"
       /\ At(t, SkipWs(t, j + 1)) = "="
       /\ At(t, SkipWs(t, j + 1) + 1) = ">"

\* /^function\s*\(/
FunctionStart(t) == At(t, 1) = "function" /\ At(t, SkipWs(t, 2)) = "("

\* /^\(\s*function/
ParenFunctionStart(t) == At(t, 1) = "(" /\ At(t, SkipWs(t, 2)) = "function"

hasValidStart(t) == ArrowStart(t) \/ FunctionStart(t) \/ ParenFunctionStart(t)

\* /document\./
DocumentPattern(t) ==
  \E i \in DOMAIN t : t[i] = "document" /\ At(t, i + 1) = "."

\* /\bfetch\s*\(/
FetchPattern(t) ==
  \E i \in DOMAIN t :
    /\ t[i] = "fetch"
    /\ WordBoundaryBefore(t, i)
    /\ At(t, SkipWs(t, i + 1)) = "("

\* /\bawait\s+fetch/
AwaitFetchPattern(t) ==
  \E i \in DOMAIN t :
    /\ t[i] = "await"
    /\ WordBoundaryBefore(t, i)
    /\ At(t, i + 1) \in Whitespace
    /\ At(t, SkipWs(t, i + 1)) = "fetch"

MsgFunctionStart == "Function must be an arrow function or function expression"
MsgUseApi == "Use the api object methods: api.$(), api.$$(), etc."
MsgNoNetwork == "Network access is not allowed in sandbox functions"

\* the error message, or "null" when the code passes
validateFunctionSyntax(code) ==
  LET trimmed == trim(code)
  IN IF ~hasValidStart(trimmed) THEN MsgFunctionStart
     ELSE IF DocumentPattern(trimmed) THEN MsgUseApi
     ELSE IF FetchPattern(trimmed) THEN MsgNoNetwork
     ELSE IF AwaitFetchPattern(trimmed) THEN MsgNoNetwork
     ELSE "null"

\* the call patterns of extractSelectorsFromCode, in the order of the source
SelectorCallPrefixes ==
  << <<"$", "(">>, <<"$", "$", "(">>, <<"querySelector", "(">>,
     <<"querySelectorAll", "(">>, <<"closest", "(">> >>

RECURSIVE FirstQuote(_, _)
\* the first position at or after i that holds a quote (Len + 1: none)
FirstQuote(t, i) ==
  IF i <= Len(t) /\ t[i] \notin Quotes THEN FirstQuote(t, i + 1) ELSE i

\* prefix \s* ['"`] ([^'"`]+) ['"`] \s* \) tried at position i:
\* [end |-> the last position of the match (0: no match), sel |-> the group]
MatchCallAt(t, i, prefix) ==
  LET q1 == SkipWs(t, i + Len(prefix))
      q2 == FirstQuote(t, q1 + 1)
      close == SkipWs(t, q2 + 1)
  IN IF /\ i + Len(prefix) - 1 <= Len(t)
        /\ SubSeq(t, i, i + Len(prefix) - 1) = prefix
        /\ At(t, q1) \in Quotes
        /\ q2 <= Len(t)
        /\ q2 > q1 + 1
        /\ At(t, close) = ")"
     THEN [end |-> close, sel |-> SubSeq(t, q1 + 1, q2 - 1)]
     ELSE [end |-> 0, sel |-> <<>>]

\* Set.add: append unless already a member
SetAdd(seq, x) ==
  IF \E k \in DOMAIN seq : seq[k] = x THEN seq ELSE Append(seq, x)

RECURSIVE ScanPattern(_, _, _, _)
\* while ((match = pattern.exec(code)) !== null) selectors.add(match[1])
ScanPattern(t, i, prefix, acc) ==
  IF i > Len(t) \/ Len(acc) > Len(t) THEN acc
  ELSE LET mt == MatchCallAt(t, i, prefix)
       IN IF mt.end = 0 THEN ScanPattern(t, i + 1, prefix, acc)
          ELSE ScanPattern(t, mt.end + 1, prefix, SetAdd(acc, mt.sel))

RECURSIVE ScanPatterns(_, _, _)
ScanPatterns(t, k, acc) ==
  IF k > Len(SelectorCallPrefixes) \/ Len(acc) > Len(t) THEN acc
  ELSE ScanPatterns(t, k + 1, ScanPattern(t, 1, SelectorCallPrefixes[k], acc))

\* the selectors in insertion order of the Set
extractSelectorsFromCode(code) == ScanPatterns(code, 1, <<>>)

(***************************************************************************)
(* generateSandboxCode and generateBridgeResults: the data the wrapped     *)
(* code carries into the sandbox.  A cache is a function from its keys to  *)
(* returned values; a key that is absent reads as undefined.               *)
(***************************************************************************)
EmptyCaches ==
  [childQueryCache |-> <<>>, childQueryAllCache |-> <<>>, closestCache |-> <<>>,
   parentCache |-> <<>>, childrenCache |-> <<>>, firstChildCache |-> <<>>,
   lastChildCache |-> <<>>, nextSiblingCache |-> <<>>, prevSiblingCache |-> <<>>]

\* allNodes[node._id] = node, for the snapshots of a returned value
CollectInto(allNodes, r) ==
  LET ids == {r.items[i]._id : i \in DOMAIN r.items}
  IN [id \in ids \cup DOMAIN allNodes |->
        IF id \in ids
          THEN r.items[CHOOSE i \in DOMAIN r.items : r.items[i]._id = id]
          ELSE allNodes[id]]

\* one iteration of generateBridgeResults' loop, for nodeId
BridgeResultsFor(st, nodeId) ==
  LET ch == children(st.b, nodeId)
      fc == firstChild(ch.b, nodeId)
      lc == lastChild(fc.b, nodeId)
      ns == nextSibling(lc.b, nodeId)
      ps == prevSibling(ns.b, nodeId)
      pa == parent(ps.b, nodeId, <<>>)
      Put(cache, key, r) == IF r.kind = "null" \/ r.items = <<>>
                              THEN cache ELSE (key :> r) @@ cache
  IN [b |-> pa.b,
      caches |-> [st.caches EXCEPT
         !.childrenCache = Put(@, nodeId, ch.r),
         !.firstChildCache = Put(@, nodeId, fc.r),
         !.lastChildCache = Put(@, nodeId, lc.r),
         !.nextSiblingCache = Put(@, nodeId, ns.r),
         !.prevSiblingCache = Put(@, nodeId, ps.r),
         !.parentCache = Put(@, <<nodeId, <<>>>>, pa.r)],
      allNodes |-> CollectInto(CollectInto(CollectInto(CollectInto(CollectInto(
                     CollectInto(st.allNodes, ch.r), fc.r), lc.r), ns.r), ps.r), pa.r)]

RECURSIVE BridgeResultsLoop(_, _)
BridgeResultsLoop(st, ids) ==
  IF ids = <<>> THEN st
  ELSE LET next == BridgeResultsFor(st, Head(ids))
       IN IF next.b.nextId >= st.b.nextId
            THEN BridgeResultsLoop(next, Tail(ids))
            ELSE st

\* for (const nodeId of Object.keys(allNodes).map(Number)): the keys are read
\* once, before the loop adds the nodes it finds
generateBridgeResults(b, allNodes) ==
  BridgeResultsLoop([b |-> b, caches |-> EmptyCaches, allNodes |-> allNodes],
                    SortedSeq(DOMAIN allNodes))

RECURSIVE PreCache(_, _)
\* queryResults.set(selector, bridge.querySelector(selector));
\* queryAllResults.set(selector, bridge.querySelectorAll(selector))
PreCache(st, sels) ==
  IF sels = <<>> THEN st
  ELSE LET q == querySelector(st.b, Head(sels), 0)
           qa == querySelectorAll(q.b, Head(sels), 0)
           next == [b |-> qa.b,
                    queryResults |-> (Head(sels) :> q.r) @@ st.queryResults,
                    queryAllResults |-> (Head(sels) :> qa.r) @@ st.queryAllResults]
       IN IF next.b.nextId >= st.b.nextId THEN PreCache(next, Tail(sels)) ELSE st

RECURSIVE CollectAll(_, _, _)
\* collectNode / collectNodes over the values of a Map
CollectAll(allNodes, map, keys) ==
  IF keys = {} THEN allNodes
  ELSE LET k == CHOOSE x \in keys : TRUE
       IN CollectAll(CollectInto(allNodes, map[k]), map, keys \ {k})

\* the wrapped code, as the data it embeds, and the bridge after generating it
generateSandboxCode(functionCode, html, url, queryResults, queryAllResults, b) ==
  LET top == CollectAll(CollectAll(<<>>, queryResults, DOMAIN queryResults),
                        queryAllResults, DOMAIN queryAllResults)
      gen == generateBridgeResults(b, top)
  IN [b |-> gen.b,
      code |-> [functionCode |-> functionCode, html |-> html, url |-> url,
                cachedQueries |-> queryResults,
                cachedQueryAlls |-> queryAllResults,
                allNodes |-> top,
                caches |-> gen.caches]]

\* (a variant for C7: the id counter is shared by the bridges of all calls)
WrapScopeFunction_SharedCounter(b0, functionCode, html, url) ==
  LET used == {calls[c].bridge.nextId : c \in DOMAIN calls}
      shared == [b0 EXCEPT !.nextId = CHOOSE x \in used : \A y \in used : x >= y]
      pre == PreCache([b |-> shared, queryResults |-> <<>>, queryAllResults |-> <<>>],
                      extractSelectorsFromCode(functionCode))
  IN generateSandboxCode(functionCode, html, url, pre.queryResults,
                         pre.queryAllResults, pre.b)

\* runScopeFunction up to its call of runInSandbox
WrapScopeFunction(b0, functionCode, html, url) ==
  LET pre == PreCache([b |-> b0, queryResults |-> <<>>, queryAllResults |-> <<>>],
                      extractSelectorsFromCode(functionCode))
  IN generateSandboxCode(functionCode, html, url, pre.queryResults,
                         pre.queryAllResults, pre.b)

(***************************************************************************)
(* The API of the wrapped code: api and the node proxies of createNode.    *)
(* A proxy is the snapshot it was created from.                            *)
(***************************************************************************)
\* cache[key] !== undefined ? cache[key] : the default
Lookup(cache, key, default) ==
  IF key \in DOMAIN cache THEN cache[key] ELSE default

\* __cachedQueries and __cachedQueryAlls are object literals: a name that
\* every object inherits reads as the inherited function, not as undefined
ObjectPrototype == {<<"constructor">>}

\* createNode(data) of a function: a proxy whose fields are all undefined
InheritedNode == [_id |-> 0, el |-> 0, tag |-> "undefined"]

\* the call throws a TypeError
RetThrow == [kind |-> "throw", items |-> <<>>]

\* api.$(selector)
ApiQuery(w, s) ==
  IF s \notin DOMAIN w.cachedQueries /\ s \in ObjectPrototype
    THEN RetNode(InheritedNode)
    ELSE Lookup(w.cachedQueries, s, RetNull)

\* api.$$(selector): the inherited function has no map method
ApiQueryAll(w, s) ==
  IF s \notin DOMAIN w.cachedQueryAlls /\ s \in ObjectPrototype
    THEN RetThrow
    ELSE Lookup(w.cachedQueryAlls, s, RetList(<<>>))

NodeQuery(w, n, s) == Lookup(w.caches.childQueryCache, <<n._id, s>>, RetNull)
NodeQueryAll(w, n, s) == Lookup(w.caches.childQueryAllCache, <<n._id, s>>, RetList(<<>>))
NodeClosest(w, n, s) == Lookup(w.caches.closestCache, <<n._id, s>>, RetNull)
NodeParent(w, n, s) == Lookup(w.caches.parentCache, <<n._id, s>>, RetNull)
NodeChildren(w, n) == Lookup(w.caches.childrenCache, n._id, RetList(<<>>))
NodeFirstChild(w, n) == Lookup(w.caches.firstChildCache, n._id, RetNull)
NodeLastChild(w, n) == Lookup(w.caches.lastChildCache, n._id, RetNull)
NodeNextSibling(w, n) == Lookup(w.caches.nextSiblingCache, n._id, RetNull)
NodePrevSibling(w, n) == Lookup(w.caches.prevSiblingCache, n._id, RetNull)

(***************************************************************************)
(* runInSandbox: the timeout handed to the engine and the mapping of what  *)
(* the engine does to the SandboxResult.                                   *)
(***************************************************************************)
DefaultTimeout == 5000

\* (a variant for C5: no default, so the engine gets no limit)
executionTimeout_NoDefault(timeout) == IF timeout = <<>> THEN 0 ELSE timeout[1]

\* const { timeout = 5000 } = options; <<>> is an option that is undefined
executionTimeout(timeout) == IF timeout = <<>> THEN DefaultTimeout ELSE timeout[1]

NoResult == [ok |-> FALSE, key |-> "none", data |-> RetNull, error |-> ""]
ResultOk(data) == [ok |-> TRUE, key |-> "data", data |-> data, error |-> ""]
ResultError(msg) == [ok |-> FALSE, key |-> "error", data |-> RetNull, error |-> msg]

\* what runSandboxed does: it resolves to a result, or it throws
EvOk(data) == [kind |-> "result", ok |-> TRUE, data |-> data, isError |-> FALSE, message |-> ""]
EvFail(msg) == [kind |-> "result", ok |-> FALSE, data |-> RetNull, isError |-> FALSE, message |-> msg]
EvThrow(isError, msg) == [kind |-> "throw", ok |-> FALSE, data |-> RetNull, isError |-> isError, message |-> msg]

\* (a variant for C4: runInSandbox without its catch block)
runInSandboxSettle_NoCatch(ev) ==
  IF ev.kind = "throw"
    THEN [outcome |-> "threw", result |-> NoResult]
  ELSE IF ev.ok
    THEN [outcome |-> "returned", result |-> ResultOk(ev.data)]
    ELSE [outcome |-> "returned",
          result |-> ResultError(IF ev.message # "" THEN ev.message
                                 ELSE "Sandbox execution failed")]

\* the try block's two returns and the catch block of runInSandbox
runInSandboxSettle(ev) ==
  IF ev.kind = "throw"
    THEN [outcome |-> "returned",
          result |-> ResultError(IF ev.isError THEN ev.message
                                 ELSE "Unknown sandbox error")]
  ELSE IF ev.ok
    THEN [outcome |-> "returned", result |-> ResultOk(ev.data)]
    ELSE [outcome |-> "returned",
          result |-> ResultError(IF ev.message # "" THEN ev.message
                                 ELSE "Sandbox execution failed")]

(***************************************************************************)
(* Inputs of runScopeFunction.                                             *)
(***************************************************************************)
\* how the function codes of the model begin
Starts ==
  { <<"(", "x", ")", "=", ">">>,
    <<" ", "(", "x", ")", "\n", "=", ">">>,
    <<"function", " ", "(", "x", ")">>,
    <<"(", "function", "(", "x", ")">>,
    <<"x", "=", ">">>,
    <<"(", "x", ",", "\n", "x", ")", "=", ">">> }

\* and how they go on
Bodies ==
  { <<"x", ".", "$", "(", "'", "div", "'", ")">>,
    <<"x", ".", "$", "$", "(", "'", "p", "'", ")", ".", "closest", "(", "'", "div", "'", ")">>,
    <<"x", ".", "querySelector", "(", "'", "[[", "'", ")">>,
    <<"x", ".", "querySelectorAll", "(", "'", "div", " ", "p", "'", ")">>,
    <<"$", "(", " ", "'", "*", "'", ")", " ">>,
    <<"x">>,
    <<"document", ".", "x">>,
    <<"fetch", "(", "x", ")">>,
    <<"x", ".", "fetch", " ", "(", "x", ")">>,
    <<"x", "fetch", "(", "x", ")">>,
    <<"await", "\n", "fetch", "x">>,
    <<"x", "await", " ", "fetch", "x">> }

Codes == {s \o b : s \in Starts, b \in Bodies}

Urls == {"http://a/"}

\* options.timeout: undefined, or a number of milliseconds
OptTimeouts == {<<>>, <<1>>, <<3>>}

\* the inputs of the specification of two concurrent calls
PairCodes ==
  { <<"(", "x", ")", "=", ">", "x", ".", "$", "(", "'", "div", "'", ")">>,
    <<"(", "x", ")", "=", ">", "x", ".", "$", "$", "(", "'", "p", "'", ")">> }

\* the clock of an evaluation advances in steps of 1 ms up to MaxFineTicks,
\* and then jumps to the timeout
MaxFineTicks == 1

CallIds == {"a", "b"}

NoBridge == [doc |-> [parent |-> <<>>, tag |-> <<>>], nodeMap |-> <<>>, nextId |-> 1]

NoWrapped ==
  [functionCode |-> <<>>, html |-> 0, url |-> "", cachedQueries |-> <<>>,
   cachedQueryAlls |-> <<>>, allNodes |-> <<>>, caches |-> EmptyCaches]

\* a call before it is made ("absent": a call that is never made)
NewCall(pc, code, html, url, timeout) ==
  [pc |-> pc, functionCode |-> code, html |-> html, url |-> url,
   timeout |-> timeout,
   bridges |-> 0,          \* DOMBridges constructed for the call
   bridge |-> NoBridge,    \* its DOMBridge
   handed |-> FALSE,       \* runInSandbox has been called
   wrapped |-> NoWrapped,  \* the wrapped code given to runInSandbox
   execTimeout |-> 0,      \* sandboxOptions.executionTimeout
   clock |-> 0,            \* ms since the evaluation began
   cur |-> RetNull,        \* the value the user function holds
   cause |-> "none",       \* how the evaluation ended
   result |-> NoResult,
   outcome |-> "pending",  \* "returned": the promise resolved; "threw": it rejected
   completions |-> 0]

AbsentCall == NewCall("absent", <<>>, 0, "", <<>>)

(***************************************************************************)
(* Scope values (scope.ts).  A JavaScript value is a record: its type; for *)
(* a number whether it is NaN, its integer part (floor) and its first      *)
(* decimal, so that 1.5 is a value; for a string its atoms; for an array   *)
(* its elements, which are values that are not arrays themselves.          *)
(***************************************************************************)
JsValue(t, nan, int, frac, s, a) ==
  [t |-> t, nan |-> nan, int |-> int, frac |-> frac, s |-> s, a |-> a]

Undefined == JsValue("undefined", FALSE, 0, 0, <<>>, <<>>)
Null == JsValue("null", FALSE, 0, 0, <<>>, <<>>)
Bool(b) == JsValue("boolean", FALSE, IF b THEN 1 ELSE 0, 0, <<>>, <<>>)
Num(int, frac) == JsValue("number", FALSE, int, frac, <<>>, <<>>)
NaN == JsValue("number", TRUE, 0, 0, <<>>, <<>>)
Str(s) == JsValue("string", FALSE, 0, 0, s, <<>>)
Arr(a) == JsValue("array", FALSE, 0, 0, <<>>, a)
\* a plain object that is the value of a property
Obj == JsValue("object", FALSE, 0, 0, <<>>, <<>>)

\* typeof v
typeof(v) == IF v.t \in {"null", "array"} THEN "object" ELSE v.t

\* Array.isArray(v)
IsArray(v) == v.t = "array"

\* the value in a condition: if (v)
Truthy(v) ==
  CASE v.t \in {"undefined", "null"} -> FALSE
    [] v.t = "boolean" -> v.int = 1
    [] v.t = "number" -> ~v.nan /\ (v.int # 0 \/ v.frac # 0)
    [] v.t = "string" -> v.s # <<>>
    [] OTHER -> TRUE

\* the numerals of the model and the numbers they denote
NumeralValue ==
  ("0" :> Num(0, 0)) @@ ("1" :> Num(1, 0)) @@ ("1.5" :> Num(1, 5)) @@
  ("100" :> Num(100, 0)) @@ ("60000" :> Num(60000, 0)) @@
  ("60001" :> Num(60001, 0)) @@ ("-1" :> Num(-1, 0))

\* Number(string): whitespace is trimmed, the empty string is 0
StringToNumber(s) ==
  LET t == trim(s)
  IN IF t = <<>> THEN Num(0, 0)
     ELSE IF Len(t) = 1 /\ t[1] \in DOMAIN NumeralValue THEN NumeralValue[t[1]]
     ELSE NaN

\* Number(v) of a value that is not an array
PrimToNumber(v) ==
  CASE v.t = "undefined" -> NaN
    [] v.t = "null" -> Num(0, 0)
    [] v.t = "boolean" -> Num(v.int, 0)
    [] v.t = "number" -> v
    [] v.t = "string" -> StringToNumber(v.s)
    [] OTHER -> NaN

\* Number(v); an array converts through its string: [] is "", [x] is String(x)
Number(v) ==
  IF v.t # "array" THEN PrimToNumber(v)
  ELSE IF Len(v.a) = 0 THEN Num(0, 0)
  ELSE IF Len(v.a) > 1 THEN NaN
  ELSE IF v.a[1].t \in {"undefined", "null"} THEN Num(0, 0)
  ELSE IF v.a[1].t \in {"number", "string"} THEN PrimToNumber(v.a[1])
  ELSE NaN

\* an object without properties
EmptyFields == [name \in {} |-> Undefined]

\* a value as validateScope gets it: the value and, of an object, its properties
Plain(v) == [v |-> v, fields |-> EmptyFields]
Object(fields) == [v |-> Obj, fields |-> fields]

\* scope.name: undefined when the object has no such property
Prop(fields, name) == IF name \in DOMAIN fields THEN fields[name] ELSE Undefined

NoScope == Plain(Undefined)
ScopeOk(scope) == [ok |-> TRUE, scope |-> scope, error |-> ""]
ScopeError(message) == [ok |-> FALSE, scope |-> NoScope, error |-> message]

SimpleScopes == {<<"main">>, <<"full">>, <<"auto">>}

\* (a variant for C8: the upper limit of the timeout is not checked)
TimeoutOutOfRange_NoUpperLimit(timeout) == timeout.nan \/ timeout.int < 1

\* isNaN(timeout) || timeout < 1 || timeout > 60000
TimeoutOutOfRange(timeout) ==
  \/ timeout.nan
  \/ timeout.int < 1
  \/ timeout.int > 60000
  \/ timeout.int = 60000 /\ timeout.frac > 0

\* case "selector" of validateScope
validateSelectorScope(scope) ==
  IF ~IsArray(Prop(scope, "include")) \/ Len(Prop(scope, "include").a) = 0
    THEN ScopeError("Selector scope requires non-empty 'include' array")
  ELSE LET result == ("type" :> Str(<<"selector">>)) @@
                     ("include" :> Prop(scope, "include"))
       IN IF Truthy(Prop(scope, "exclude"))
            THEN IF ~IsArray(Prop(scope, "exclude"))
                   THEN ScopeError("Selector scope 'exclude' must be an array")
                   ELSE ScopeOk(Object(("exclude" :> Prop(scope, "exclude"))
                                       @@ result))
            ELSE ScopeOk(Object(result))

\* case "function" of validateScope
validateFunctionScope(scope) ==
  IF Prop(scope, "code").t # "string" \/ trim(Prop(scope, "code").s) = <<>>
    THEN ScopeError("Function scope requires non-empty 'code' string")
  ELSE LET result == ("type" :> Str(<<"function">>)) @@
                     ("code" :> Prop(scope, "code"))
       IN IF Prop(scope, "timeout") # Undefined
            THEN LET timeout == Number(Prop(scope, "timeout"))
                 IN IF TimeoutOutOfRange(timeout)
                      THEN ScopeError("Function scope timeout must be between 1 and 60000 ms")
                      ELSE ScopeOk(Object(("timeout" :> timeout) @@ result))
            ELSE ScopeOk(Object(result))

\* case "handler" of validateScope
validateHandlerScope(scope) ==
  IF Prop(scope, "id").t # "string" \/ trim(Prop(scope, "id").s) = <<>>
    THEN ScopeError("Handler scope requires non-empty 'id' string")
    ELSE ScopeOk(Object(("type" :> Str(<<"handler">>)) @@
                        ("id" :> Prop(scope, "id"))))

\* validateScope(obj): the scope it returns, or the error it throws
validateScope(obj) ==
  IF typeof(obj.v) = "string"
    THEN IF obj.v.s \in SimpleScopes THEN ScopeOk(obj)
         ELSE ScopeError("Invalid scope string")
  ELSE IF typeof(obj.v) # "object" \/ obj.v = Null
    THEN ScopeError("Scope must be a string or object")
  ELSE IF "type" \notin DOMAIN obj.fields
    THEN ScopeError("Scope object must have a 'type' field")
  ELSE IF obj.fields["type"] = Str(<<"selector">>)
    THEN validateSelectorScope(obj.fields)
  ELSE IF obj.fields["type"] = Str(<<"function">>)
    THEN validateFunctionScope(obj.fields)
  ELSE IF obj.fields["type"] = Str(<<"handler">>)
    THEN validateHandlerScope(obj.fields)
  ELSE ScopeError("Unknown scope type")

(***************************************************************************)
(* parseScopeArg.  Its argument is a string of atoms; "selector:" and the  *)
(* tokens of JSON are atoms.                                               *)
(***************************************************************************)
RECURSIVE SplitComma(_, _, _)
\* s.split(","): cur is the piece being read, i the position in s
SplitComma(s, i, cur) ==
  IF i > Len(s) THEN <<cur>>
  ELSE IF s[i] = "," THEN <<cur>> \o SplitComma(s, i + 1, <<>>)
  ELSE SplitComma(s, i + 1, Append(cur, s[i]))

\* s.split(",").map((s) => s.trim()).filter(Boolean), as an array of strings
SelectorList(s) ==
  LET pieces == SplitComma(s, 1, <<>>)
      trimmed == [k \in DOMAIN pieces |-> trim(pieces[k])]
      kept == SelectSeq(trimmed, LAMBDA x : x # <<>>)
  IN Arr([k \in DOMAIN kept |-> Str(kept[k])])

\* the string literals of the JSON texts and the strings they denote
JsonStrings ==
  ("\"type\"" :> <<"type">>) @@ ("\"include\"" :> <<"include">>) @@
  ("\"exclude\"" :> <<"exclude">>) @@ ("\"code\"" :> <<"code">>) @@
  ("\"timeout\"" :> <<"timeout">>) @@ ("\"id\"" :> <<"id">>) @@
  ("\"selector\"" :> <<"selector">>) @@ ("\"function\"" :> <<"function">>) @@
  ("\"handler\"" :> <<"handler">>) @@ ("\"p\"" :> <<"p">>) @@
  ("\"\"" :> <<>>) @@ ("\"(x)=>x\"" :> <<"(", "x", ")", "=", ">", "x">>) @@
  ("\"ttl\"" :> <<"ttl">>)

JsonFail == [ok |-> FALSE, v |-> Undefined, next |-> 0]
JsonValue(v, next) == [ok |-> TRUE, v |-> v, next |-> next]

\* a JSON value that is one token: a string, a number, true, false or null
JsonPrim(toks, i) ==
  CASE At(toks, i) \in DOMAIN JsonStrings -> JsonValue(Str(JsonStrings[toks[i]]), i + 1)
    [] At(toks, i) \in DOMAIN NumeralValue -> JsonValue(NumeralValue[toks[i]], i + 1)
    [] At(toks, i) = "true" -> JsonValue(Bool(TRUE), i + 1)
    [] At(toks, i) = "false" -> JsonValue(Bool(FALSE), i + 1)
    [] At(toks, i) = "null" -> JsonValue(Null, i + 1)
    [] OTHER -> JsonFail

RECURSIVE JsonElements(_, _, _)
\* the elements of a JSON array from position i up to "]"
JsonElements(toks, i, acc) ==
  LET el == JsonPrim(toks, i)
  IN IF ~el.ok THEN JsonFail
     ELSE IF At(toks, i + 1) = "," THEN JsonElements(toks, i + 2, Append(acc, el.v))
     ELSE IF At(toks, i + 1) = "]" THEN JsonValue(Arr(Append(acc, el.v)), i + 2)
     ELSE JsonFail

\* the JSON value at position i: one token, an array of them, or {}
JsonValueAt(toks, i) ==
  IF At(toks, i) = "[" THEN
    IF At(toks, i + 1) = "]" THEN JsonValue(Arr(<<>>), i + 2)
    ELSE JsonElements(toks, i + 1, <<>>)
  ELSE IF At(toks, i) = "{" THEN
    IF At(toks, i + 1) = "}" THEN JsonValue(Obj, i + 2) ELSE JsonFail
  ELSE JsonPrim(toks, i)

RECURSIVE JsonMembers(_, _, _)
\* the members of a JSON object from position i up to the closing "}"
JsonMembers(toks, i, fields) ==
  IF At(toks, i) \notin DOMAIN JsonStrings \/ Len(JsonStrings[At(toks, i)]) # 1
       \/ At(toks, i + 1) # ":"
    THEN [ok |-> FALSE, value |-> NoScope]
  ELSE LET val == JsonValueAt(toks, i + 2)
           added == (JsonStrings[toks[i]][1] :> val.v) @@ fields
       IN IF ~val.ok THEN [ok |-> FALSE, value |-> NoScope]
          ELSE IF At(toks, val.next) = ","
            THEN JsonMembers(toks, val.next + 1, added)
          ELSE IF At(toks, val.next) = "}" /\ val.next = Len(toks)
            THEN [ok |-> TRUE, value |-> Object(added)]
          ELSE [ok |-> FALSE, value |-> NoScope]

\* JSON.parse(arg) of a text that starts with "{": the object, or a SyntaxError
JSONparse(arg) ==
  LET toks == SelectSeq(arg, LAMBDA x : x \notin Whitespace)
  IN IF toks = <<"{", "}">> THEN [ok |-> TRUE, value |-> Object(EmptyFields)]
     ELSE JsonMembers(toks, 2, EmptyFields)

\* parseScopeArg(arg, excludeArg): the scope it returns, or the error it throws
parseScopeArg(arg, excludeArg) ==
  IF arg \in SimpleScopes THEN ScopeOk(Plain(Str(arg)))
  ELSE IF At(arg, 1) = "{"
    THEN IF JSONparse(arg).ok THEN validateScope(JSONparse(arg).value)
         ELSE ScopeError("SyntaxError")
  ELSE IF At(arg, 1) = "selector:"
    THEN LET include == SelectorList(SubSeq(arg, 2, Len(arg)))
             scope == ("type" :> Str(<<"selector">>)) @@ ("include" :> include)
         IN IF Len(include.a) = 0
              THEN ScopeError("Selector scope requires at least one include selector")
            ELSE IF Truthy(excludeArg)
              THEN ScopeOk(Object(("exclude" :> SelectorList(excludeArg.s)) @@ scope))
            ELSE ScopeOk(Object(scope))
  ELSE ScopeError("Invalid scope")

(***************************************************************************)
(* The values the scope functions are called with.                         *)
(***************************************************************************)
\* a property that is missing, or has one of the values
Opt(name, values) == {EmptyFields} \cup {name :> v : v \in values}

IncludeValues ==
  { Arr(<<>>), Arr(<<Str(<<"p">>)>>), Arr(<<Str(<<"p">>), Str(<<"div">>)>>),
    Arr(<<Num(1, 0)>>), Arr(<<Str(<<>>)>>), Str(<<"p">>), Obj }

ExcludeValues ==
  { Arr(<<>>), Arr(<<Str(<<"p">>)>>), Arr(<<Num(1, 0)>>), Str(<<"p">>),
    Str(<<>>), Num(0, 0), Null, Bool(FALSE), Obj }

CodeValues ==
  { Str(<<>>), Str(<<" ">>), Str(<<"(", "x", ")", "=", ">", "x">>), Num(1, 0) }

TimeoutValues ==
  { Num(0, 0), Num(0, 5), Num(1, 0), Num(1, 5), Num(100, 0), Num(60000, 0),
    Num(60000, 5), Num(60001, 0), Num(-1, 0), NaN,
    Str(<<"100">>), Str(<<" ", "1">>), Str(<<"60001">>), Str(<<"x">>), Str(<<>>),
    Bool(TRUE), Bool(FALSE), Null, Arr(<<Num(100, 0)>>), Arr(<<>>), Obj }

IdValues == { Str(<<>>), Str(<<"h">>), Num(1, 0) }

TypeField(name) == "type" :> Str(<<name>>)

ScopeObjects ==
  {Plain(Str(s)) : s \in SimpleScopes \cup {<<"other">>, <<>>}}
  \cup {Plain(v) : v \in {Num(1, 0), Null, Undefined, Bool(TRUE), Arr(<<Str(<<"p">>)>>)}}
  \cup {Object(i) : i \in Opt("include", IncludeValues)}
  \cup {Object(("type" :> t) @@ i) :
          t \in {Str(<<"other">>), Str(<<>>), Num(1, 0), Null},
          i \in Opt("include", {Arr(<<Str(<<"p">>)>>)})}
  \cup {Object(TypeField("selector") @@ i @@ e) :
          i \in Opt("include", IncludeValues), e \in Opt("exclude", ExcludeValues)}
  \cup {Object(TypeField("function") @@ c @@ t) :
          c \in Opt("code", CodeValues), t \in Opt("timeout", TimeoutValues)}
  \cup {Object(TypeField("handler") @@ i) : i \in Opt("id", IdValues)}

ScopeArgs ==
  SimpleScopes
  \cup { <<>>, <<"other">>, <<"main", " ">>, <<"selector">>,
         <<"selector:">>, <<"selector:", " ", ",", ",">>,
         <<"selector:", "p">>, <<"selector:", " ", "p", ",", ",", "div", " ">>,
         <<"selector:", "[", "p", ",", "div", "]">>,
         <<"{">>, <<"{", "}">>, <<"{", "\"type\"", "}">>,
         <<"{", "\"type\"", ":", "\"selector\"", "}">>,
         <<"{", "\"type\"", ":", "\"selector\"", ",", "\"include\"", ":", "[", "]", "}">>,
         <<"{", "\"type\"", ":", "\"selector\"", ",", " ", "\"include\"", ":",
           "[", "\"p\"", ",", "\"\"", "]", ",", "\"exclude\"", ":", "[", "\"p\"", "]", "}">>,
         <<"{", "\"type\"", ":", "\"selector\"", ",", "\"include\"", ":", "[", "\"p\"", ",", "]", "}">>,
         <<"{", "\"type\"", ":", "\"function\"", ",", "\"code\"", ":", "\"\"", "}">>,
         <<"{", "\"type\"", ":", "\"function\"", ",", "\"code\"", ":", "\"(x)=>x\"", "}">>,
         <<"{", "\"type\"", ":", "\"function\"", ",", "\"code\"", ":", "\"(x)=>x\"",
           ",", "\"timeout\"", ":", "60000", "}">>,
         <<"{", "\"type\"", ":", "\"function\"", ",", "\"code\"", ":", "\"(x)=>x\"",
           ",", "\"timeout\"", ":", "60001", "}">>,
         <<"{", "\"type\"", ":", "\"function\"", ",", "\"code\"", ":", "\"(x)=>x\"",
           ",", "\"timeout\"", ":", "0", "}">>,
         <<"{", "\"type\"", ":", "\"function\"", ",", "\"timeout\"", ":", "1",
           ",", "\"code\"", ":", "\"(x)=>x\"", "}", "x">>,
         <<"{", "\"type\"", ":", "\"handler\"", ",", "\"id\"", ":", "\"p\"", "}">> }

ExcludeArgs == {Undefined, Str(<<>>), Str(<<"p", ",", " ", "div">>), Str(<<",">>)}

RECURSIVE JoinComma(_, _)
\* include.join(","): the strings from position k on, with "," between them
JoinComma(a, k) ==
  IF k > Len(a) THEN <<>>
  ELSE IF k = Len(a) THEN a[k].s
  ELSE a[k].s \o <<",">> \o JoinComma(a, k + 1)

\* scopeToString(scope): the display string, as atoms
scopeToString(scope) ==
  IF typeof(scope.v) = "string" THEN scope.v.s
  ELSE IF Prop(scope.fields, "type") = Str(<<"selector">>)
    THEN <<"selector:", "[">> \o JoinComma(Prop(scope.fields, "include").a, 1) \o <<"]">>
  ELSE IF Prop(scope.fields, "type") = Str(<<"function">>) THEN <<"function">>
  ELSE IF Prop(scope.fields, "type") = Str(<<"handler">>)
    THEN <<"handler:">> \o Prop(scope.fields, "id").s
  ELSE <<"unknown">>

\* the values of type Scope: simple scopes, selector scopes with selectors
\* in include (and exclude), function scopes, handler scopes
Scopes ==
  {Plain(Str(s)) : s \in SimpleScopes}
  \cup {Object(TypeField("selector") @@ ("include" :> i) @@ e) :
          i \in {Arr(<<Str(<<"p">>)>>), Arr(<<Str(<<"p">>), Str(<<"div">>)>>),
                 Arr(<<Str(<<"div", " ", "p">>)>>)},
          e \in Opt("exclude", {Arr(<<Str(<<"span">>)>>)})}
  \cup {Object(TypeField("function") @@ ("code" :> Str(<<"(", "x", ")", "=", ">", "x">>)) @@ t) :
          t \in Opt("timeout", {Num(100, 0)})}
  \cup {Object(TypeField("handler") @@ ("id" :> Str(<<"h">>)))}

ScopeCallOf(fn, obj, arg, excludeArg) ==
  [fn |-> fn, obj |-> obj, arg |-> arg, excludeArg |-> excludeArg, pc |-> "called"]

(***************************************************************************)
(* Text of an element (dom-bridge.ts) and of a page (html-parser.ts).  A   *)
(* node is a record: tag "#text" with its text, or an element tag with its *)
(* child nodes.  A text is a sequence of atoms, " " and "\n" the           *)
(* whitespace.                                                             *)
(***************************************************************************)
BLOCK_ELEMENTS ==
  { "p", "div", "h1", "h2", "h3", "h4", "h5", "h6", "li", "tr", "br", "hr",
    "article", "section", "header", "footer", "blockquote", "pre", "ul", "ol",
    "table", "thead", "tbody", "tfoot", "nav", "aside", "main", "figure",
    "figcaption", "address", "dd", "dt", "dl" }

TextNode(text) == [tag |-> "#text", text |-> text, childNodes |-> <<>>]
ElementNode(tag, childNodes) == [tag |-> tag, text |-> <<>>, childNodes |-> childNodes]

RECURSIVE ReplaceRuns(_, _, _, _)
\* replace(/x+/g, by) from position i on, for the atoms x of a set
ReplaceRuns(t, i, set, by) ==
  IF i > Len(t) THEN <<>>
  ELSE IF t[i] \notin set THEN <<t[i]>> \o ReplaceRuns(t, i + 1, set, by)
  ELSE IF i > 1 /\ t[i - 1] \in set THEN ReplaceRuns(t, i + 1, set, by)
  ELSE <<by>> \o ReplaceRuns(t, i + 1, set, by)

RECURSIVE ReplacePairs(_, _, _, _)
\* replace(/ab/g, by) from position i on, for a pair <<a, b>> of atoms
ReplacePairs(t, i, pair, by) ==
  IF i > Len(t) THEN <<>>
  ELSE IF i < Len(t) /\ t[i] = pair[1] /\ t[i + 1] = pair[2]
    THEN <<by>> \o ReplacePairs(t, i + 2, pair, by)
  ELSE <<t[i]>> \o ReplacePairs(t, i + 1, pair, by)

\* (a variant for C14: without the g flag only the first run is replaced)
ReplaceWhitespace_FirstOnly(t) ==
  IF \A i \in DOMAIN t : t[i] \notin Whitespace THEN t
  ELSE LET i == CHOOSE k \in DOMAIN t :
                  t[k] \in Whitespace /\ \A m \in 1..(k - 1) : t[m] \notin Whitespace
           j == SkipWs(t, i)
       IN SubSeq(t, 1, i - 1) \o <<" ">> \o SubSeq(t, j, Len(t))

\* replace(/\s+/g, " ")
ReplaceWhitespace(t) == ReplaceRuns(t, 1, Whitespace, " ")

RECURSIVE walk(_)
RECURSIVE WalkChildNodes(_, _)
\* the parts that walk(node) pushes, joined
walk(node) ==
  IF node.tag = "#text" THEN ReplaceWhitespace(node.text)
  ELSE IF node.tag = "br" THEN <<"\n">>
  ELSE WalkChildNodes(node.childNodes, 1)
         \o (IF node.tag \in BLOCK_ELEMENTS THEN <<"\n">> ELSE <<>>)

\* for (const child of Array.from(node.childNodes)) walk(child)
WalkChildNodes(childNodes, k) ==
  IF k > Len(childNodes) THEN <<>>
  ELSE walk(childNodes[k]) \o WalkChildNodes(childNodes, k + 1)

\* replace(/ \n/g, "\n")
RemoveSpaceBeforeNewline(t) == ReplacePairs(t, 1, <<" ", "\n">>, "\n")

\* DOMBridge.extractBlockAwareText(element)
extractBlockAwareText(element) ==
  trim(ReplacePairs(
         RemoveSpaceBeforeNewline(
           ReplaceRuns(ReplaceRuns(walk(element), 1, {"\n"}, "\n"), 1, {" "}, " ")),
         1, <<"\n", " ">>, "\n"))

\* the end of the match of /\n\s*\n/ that starts at i, or 0 without a match
BlankLinesEnd(t, i) ==
  LET ends == {j \in (i + 1)..Len(t) :
                 t[j] = "\n" /\ \A m \in (i + 1)..j : t[m] \in Whitespace}
  IN IF At(t, i) = "\n" /\ ends # {}
       THEN CHOOSE j \in ends : \A m \in ends : j >= m
       ELSE 0

RECURSIVE ReplaceBlankLines(_, _)
\* replace(/\n\s*\n/g, "\n\n") from position i on
ReplaceBlankLines(t, i) ==
  IF i > Len(t) THEN <<>>
  ELSE IF BlankLinesEnd(t, i) > 0
    THEN <<"\n", "\n">> \o ReplaceBlankLines(t, BlankLinesEnd(t, i) + 1)
  ELSE <<t[i]>> \o ReplaceBlankLines(t, i + 1)

\* cleanText(text)
cleanText(text) == trim(ReplaceBlankLines(ReplaceWhitespace(text), 1))

(***************************************************************************)
(* The element subtrees and the texts the text functions are given.        *)
(***************************************************************************)
\* the longest text given to cleanText
MaxTextLen == 5

\* sequences of at most n members of a set
SeqUpTo(set, n) == UNION {[1..k -> set] : k \in 0..n}

LeafNodes == {TextNode(<<"a">>), TextNode(<<" ", "\n", " ">>), ElementNode("br", <<>>)}
InnerNodes == {ElementNode(tag, c) : tag \in {"p", "span"}, c \in SeqUpTo(LeafNodes, 3)}
ElementTrees ==
  {ElementNode(tag, c) : tag \in {"div", "span"},
                         c \in SeqUpTo(LeafNodes \cup InnerNodes, 2)}

Texts == SeqUpTo({"a", " ", "\n"}, MaxTextLen)

(***************************************************************************)
(* extractContent (html-parser.ts).  node-html-parser's parse is a         *)
(* library: a page is modelled by the tree it yields.  An element has a    *)
(* key that tells it from every other element of the page, its tag, its    *)
(* id, class names, role and src attributes, and its child nodes.          *)
(***************************************************************************)
HtmlText(text) ==
  [tag |-> "#text", text |-> text, childNodes |-> <<>>, key |-> <<>>,
   id |-> "", classes |-> {}, role |-> "", src |-> <<>>]

HtmlElement(key, tag, id, classes, role, src, childNodes) ==
  [tag |-> tag, text |-> <<>>, childNodes |-> childNodes, key |-> key,
   id |-> id, classes |-> classes, role |-> role, src |-> src]

\* an element without attributes
Plainly(key, tag, childNodes) == HtmlElement(key, tag, "", {}, "", <<>>, childNodes)

\* no element: the null of querySelector
NoElement == HtmlElement(<<>>, "#none", "", {}, "", <<>>, <<>>)

\* the selectors of extractContent: a tag, [role="x"], .x or #x
TagSel(name) == [kind |-> "tag", name |-> name]
RoleSel(name) == [kind |-> "role", name |-> name]
ClassSel(name) == [kind |-> "class", name |-> name]
IdSel(name) == [kind |-> "id", name |-> name]

\* the element matches the selector
HtmlMatches(el, sel) ==
  /\ el.tag \notin {"#text", "#root", "#none"}
  /\ CASE sel.kind = "tag" -> el.tag = sel.name
       [] sel.kind = "role" -> el.role = sel.name
       [] sel.kind = "class" -> sel.name \in el.classes
       [] sel.kind = "id" -> el.id = sel.name

\* img.getAttribute("src")?.startsWith("data:")
IsDataImage(el) == el.tag = "img" /\ At(el.src, 1) = "data:"

\* what a removal pass removes: the images with a data: source, or the
\* elements that match a selector
DataImages == [kind |-> "dataImages", name |-> "img"]

Removes(what, el) ==
  IF what = DataImages THEN IsDataImage(el) ELSE HtmlMatches(el, what)

RECURSIVE RemoveWhere(_, _)
RECURSIVE RemoveWhereIn(_, _, _)
\* root.querySelectorAll(...).forEach((el) => el.remove()): the tree
\* without the descendants the pass removes
RemoveWhere(node, what) ==
  [node EXCEPT !.childNodes = RemoveWhereIn(node.childNodes, 1, what)]

RemoveWhereIn(childNodes, k, what) ==
  IF k > Len(childNodes) THEN <<>>
  ELSE IF Removes(what, childNodes[k]) THEN RemoveWhereIn(childNodes, k + 1, what)
  ELSE <<RemoveWhere(childNodes[k], what)>> \o RemoveWhereIn(childNodes, k + 1, what)

RECURSIVE RemoveSelectors(_, _, _)
\* selectors.forEach((selector) => root.querySelectorAll(selector).forEach(remove))
RemoveSelectors(root, selectors, k) ==
  IF k > Len(selectors) THEN root
  ELSE RemoveSelectors(RemoveWhere(root, selectors[k]), selectors, k + 1)

RECURSIVE HtmlQuerySelector(_, _)
RECURSIVE HtmlQuerySelectorIn(_, _, _)
\* node.querySelector(selector): the first descendant in document order
HtmlQuerySelector(node, sel) == HtmlQuerySelectorIn(node.childNodes, 1, sel)

HtmlQuerySelectorIn(childNodes, k, sel) ==
  IF k > Len(childNodes) THEN NoElement
  ELSE IF HtmlMatches(childNodes[k], sel) THEN childNodes[k]
  ELSE IF HtmlQuerySelector(childNodes[k], sel) # NoElement
    THEN HtmlQuerySelector(childNodes[k], sel)
  ELSE HtmlQuerySelectorIn(childNodes, k + 1, sel)

RECURSIVE textContent(_)
RECURSIVE TextContentIn(_, _)
\* node.textContent: the texts of the text nodes below it, in document order
textContent(node) ==
  IF node.tag = "#text" THEN node.text ELSE TextContentIn(node.childNodes, 1)

TextContentIn(childNodes, k) ==
  IF k > Len(childNodes) THEN <<>>
  ELSE textContent(childNodes[k]) \o TextContentIn(childNodes, k + 1)

\* the number of characters an atom stands for: "w98" is a word of 98
AtomLength(a) == IF a = "w98" THEN 98 ELSE 1

RECURSIVE TextLength(_)
\* text.length
TextLength(t) == IF t = <<>> THEN 0 ELSE AtomLength(t[1]) + TextLength(Tail(t))

alwaysRemove_NoSvg ==
  <<TagSel("script"), TagSel("style"), TagSel("noscript"), TagSel("iframe")>>

alwaysRemove ==
  <<TagSel("script"), TagSel("style"), TagSel("noscript"), TagSel("iframe"),
    TagSel("svg")>>

mainOnlyRemove ==
  <<TagSel("nav"), TagSel("header"), TagSel("footer"), TagSel("aside"),
    TagSel("form"), RoleSel("navigation"), RoleSel("banner"),
    RoleSel("contentinfo"), RoleSel("complementary"),
    ClassSel("nav"), ClassSel("navbar"), ClassSel("header"), ClassSel("footer"),
    ClassSel("sidebar"), ClassSel("menu"), ClassSel("advertisement"),
    ClassSel("ads"), ClassSel("ad"),
    IdSel("nav"), IdSel("header"), IdSel("footer"), IdSel("sidebar"), IdSel("menu")>>

mainSelectors ==
  <<TagSel("main"), RoleSel("main"), TagSel("article"), ClassSel("content"),
    ClassSel("post"), ClassSel("article"), ClassSel("entry"),
    IdSel("content"), IdSel("main"), ClassSel("main")>>

\* (a variant for C15: more than 100 characters are required)
HasMainText_MoreThan100(el) ==
  /\ el # NoElement
  /\ textContent(el) # <<>>
  /\ TextLength(trim(textContent(el))) > 100

\* el && el.textContent && el.textContent.trim().length >= 100
HasMainText(el) ==
  /\ el # NoElement
  /\ textContent(el) # <<>>
  /\ TextLength(trim(textContent(el))) >= 100

RECURSIVE SelectMain(_, _)
\* for (const selector of mainSelectors): the first that has the main text
SelectMain(root, k) ==
  IF k > Len(mainSelectors) THEN NoElement
  ELSE IF HasMainText(HtmlQuerySelector(root, mainSelectors[k]))
    THEN HtmlQuerySelector(root, mainSelectors[k])
  ELSE SelectMain(root, k + 1)

\* extractContent(html, mainOnly, format): the container it chose, and the
\* string it returns: the child nodes for innerHTML, or the cleaned text
extractContent(html, mainOnly, format) ==
  LET cleaned == RemoveWhere(RemoveSelectors(html, alwaysRemove, 1), DataImages)
      root == IF mainOnly THEN RemoveSelectors(cleaned, mainOnlyRemove, 1) ELSE cleaned
      main == IF mainOnly THEN SelectMain(root, 1) ELSE NoElement
      content == IF main # NoElement THEN main
                 ELSE IF HtmlQuerySelector(root, TagSel("body")) # NoElement
                   THEN HtmlQuerySelector(root, TagSel("body"))
                 ELSE root
  IN [root |-> root, content |-> content,
      innerHTML |-> IF format = "html" THEN content.childNodes ELSE <<>>,
      text |-> IF format = "text" THEN cleanText(textContent(content)) ELSE <<>>]

RECURSIVE HtmlQuerySelectorAll(_, _)
RECURSIVE HtmlQuerySelectorAllIn(_, _, _)
\* node.querySelectorAll(selector): the descendants that match, in
\* document order
HtmlQuerySelectorAll(node, sel) == HtmlQuerySelectorAllIn(node.childNodes, 1, sel)

HtmlQuerySelectorAllIn(childNodes, k, sel) ==
  IF k > Len(childNodes) THEN <<>>
  ELSE (IF HtmlMatches(childNodes[k], sel) THEN <<childNodes[k]>> ELSE <<>>)
         \o HtmlQuerySelectorAll(childNodes[k], sel)
         \o HtmlQuerySelectorAllIn(childNodes, k + 1, sel)

(***************************************************************************)
(* extractBySelector and extractWithScope are exported by html-parser      *)
(* (services/index.ts) and called by the server and the CLI, but their     *)
(* code is not in the sources at hand: they are modelled from the          *)
(* specification (4.2) and from docs/implementation/scope.md.              *)
(***************************************************************************)
RECURSIVE AllMatches(_, _, _)
\* the matches of the include selectors, one selector after the other
AllMatches(root, include, k) ==
  IF k > Len(include) THEN <<>>
  ELSE HtmlQuerySelectorAll(root, include[k]) \o AllMatches(root, include, k + 1)

RECURSIVE Deduplicate(_, _, _)
\* the elements without those that came before (by identity)
Deduplicate(elements, k, seen) ==
  IF k > Len(elements) THEN <<>>
  ELSE IF elements[k].key \in seen THEN Deduplicate(elements, k + 1, seen)
  ELSE <<elements[k]>> \o Deduplicate(elements, k + 1, seen \cup {elements[k].key})

\* (a variant for C18: the matches are not deduplicated)
extractBySelector_NoDedup(html, include, exclude) ==
  LET root == RemoveWhere(RemoveSelectors(html, alwaysRemove, 1), DataImages)
      elements == AllMatches(root, include, 1)
  IN [k \in 1..Len(elements) |-> RemoveSelectors(elements[k], exclude, 1)]

\* extractBySelector(html, include, exclude): the elements it emits, each
\* without what the exclude selectors match inside it; the content is their
\* innerHTML (or text) joined by "\n"
extractBySelector(html, include, exclude) ==
  LET root == RemoveWhere(RemoveSelectors(html, alwaysRemove, 1), DataImages)
      elements == Deduplicate(AllMatches(root, include, 1), 1, {})
  IN [k \in 1..Len(elements) |-> RemoveSelectors(elements[k], exclude, 1)]

\* the scopes of an extraction; the selectors of a selector scope are parsed
ExtractScope(type, include, exclude) ==
  [type |-> type, include |-> include, exclude |-> exclude]

MainScope == ExtractScope("main", <<>>, <<>>)
FullScope == ExtractScope("full", <<>>, <<>>)
AutoScope == ExtractScope("auto", <<>>, <<>>)
FunctionScope == ExtractScope("function", <<>>, <<>>)
HandlerScope == ExtractScope("handler", <<>>, <<>>)

\* what the handler lookup yields: it is not registered, it has no handler
\* for the page, or it has a handler with a scope
NoLookup == [registered |-> FALSE, found |-> FALSE, id |-> "", scope |-> MainScope]
NoHandler == [registered |-> TRUE, found |-> FALSE, id |-> "", scope |-> MainScope]
Handler(id, scope) == [registered |-> TRUE, found |-> TRUE, id |-> id, scope |-> scope]

\* ScopeResolution (part_004)
ScopeResolution(scopeUsed, scopeResolved, handlerId) ==
  [scopeUsed |-> scopeUsed, scopeResolved |-> scopeResolved, handlerId |-> handlerId]

\* ExtractionResult, or the failure of the extraction
Extraction(content, scopeResolution) ==
  [ok |-> TRUE, content |-> content, scopeResolution |-> scopeResolution]

ExtractionFailed(error) ==
  [ok |-> FALSE, content |-> error, scopeResolution |-> ScopeResolution(MainScope, FALSE, "")]

\* the content of a scope that is not resolved further; the content of a
\* function scope is what the sandbox returns (runScopeFunction)
ScopeContent(html, scope, format) ==
  CASE scope.type = "main" -> extractContent(html, TRUE, format)
    [] scope.type = "full" -> extractContent(html, FALSE, format)
    [] scope.type = "selector" -> extractBySelector(html, scope.include, scope.exclude)
    [] OTHER -> <<"runScopeFunction">>

\* (a variant for C19: auto without a handler is reported as not resolved)
extractWithScope_AutoUnresolved(html, scope, format, lookup) ==
  CASE scope.type = "auto" /\ lookup.found ->
         Extraction(ScopeContent(html, lookup.scope, format),
                    ScopeResolution(lookup.scope, TRUE, lookup.id))
    [] scope.type = "auto" /\ ~lookup.found ->
         Extraction(ScopeContent(html, MainScope, format),
                    ScopeResolution(MainScope, FALSE, ""))
    [] scope.type = "handler" /\ lookup.found ->
         Extraction(ScopeContent(html, lookup.scope, format),
                    ScopeResolution(lookup.scope, FALSE, lookup.id))
    [] scope.type = "handler" /\ ~lookup.found ->
         ExtractionFailed("HandlerUnavailable")
    [] OTHER ->
         Extraction(ScopeContent(html, scope, format), ScopeResolution(scope, FALSE, ""))

\* extractWithScope(html, scope, format, url): the content and the
\* ScopeResolution; lookup is what the handler lookup yields for the url
extractWithScope(html, scope, format, lookup) ==
  CASE scope.type = "auto" /\ lookup.found ->
         Extraction(ScopeContent(html, lookup.scope, format),
                    ScopeResolution(lookup.scope, TRUE, lookup.id))
    [] scope.type = "auto" /\ ~lookup.found ->
         Extraction(ScopeContent(html, MainScope, format),
                    ScopeResolution(MainScope, TRUE, ""))
    [] scope.type = "handler" /\ lookup.found ->
         Extraction(ScopeContent(html, lookup.scope, format),
                    ScopeResolution(lookup.scope, FALSE, lookup.id))
    [] scope.type = "handler" /\ ~lookup.found ->
         ExtractionFailed("HandlerUnavailable")
    [] OTHER ->
         Extraction(ScopeContent(html, scope, format), ScopeResolution(scope, FALSE, ""))

\* no bridge, and no call of the scope functions, is under test
BridgeIdle == bridge = NoBridge /\ ret = RetNull /\ returned = {}
ScopeIdle ==
  /\ scopeCall = [fn |-> "none", obj |-> NoScope, arg |-> <<>>,
                  excludeArg |-> Undefined, pc |-> "none"]
  /\ scopeResult = ScopeError("")
ContentIdle == contentCall = [fn |-> "none"] /\ contentResult = <<>>
ServerIdle == request = [route |-> "none"] /\ response = <<>> /\ pages = <<>>

(***************************************************************************)
(* The bridge specification: one bridge, any sequence of its operations.   *)
(***************************************************************************)
InitBridge ==
  /\ bridge \in {NewBridge(h) : h \in Htmls}
  /\ ret = RetNull
  /\ returned = {}
  /\ calls = [c \in CallIds |-> AbsentCall]
  /\ quickJsLoader = "null"
  /\ loadCalls = 0
  /\ ScopeIdle
  /\ ContentIdle
  /\ ServerIdle

\* the ids a caller may pass: every issued id and one that was never issued
CallerIds == 1..(MaxIds + 1)

\* the bridge call `res` happens: the bridge and the returned value change
BridgeCall(res) ==
  /\ res.b.nextId <= MaxIds + 1
  /\ bridge' = res.b
  /\ ret' = res.r
  /\ returned' = returned \cup {<<res.r.items[i]._id, res.r.items[i].el>> :
                                   i \in DOMAIN res.r.items}
  /\ UNCHANGED outsideBridge

QuerySelector == \E s \in Selectors : BridgeCall(querySelector(bridge, s, 0))
QuerySelectorAll == \E s \in Selectors : BridgeCall(querySelectorAll(bridge, s, 0))
ChildQuery == \E id \in CallerIds, s \in Selectors : BridgeCall(childQuery(bridge, id, s))
ChildQueryAll == \E id \in CallerIds, s \in Selectors : BridgeCall(childQueryAll(bridge, id, s))
Closest == \E id \in CallerIds, s \in Selectors : BridgeCall(closest(bridge, id, s))
Parent == \E id \in CallerIds, s \in Selectors \cup {<<>>} : BridgeCall(parent(bridge, id, s))
Children == \E id \in CallerIds : BridgeCall(children(bridge, id))
FirstChild == \E id \in CallerIds : BridgeCall(firstChild(bridge, id))
LastChild == \E id \in CallerIds : BridgeCall(lastChild(bridge, id))
NextSibling == \E id \in CallerIds : BridgeCall(nextSibling(bridge, id))
PrevSibling == \E id \in CallerIds : BridgeCall(prevSibling(bridge, id))

NextBridge ==
  \/ QuerySelector
  \/ QuerySelectorAll
  \/ ChildQuery
  \/ ChildQueryAll
  \/ Closest
  \/ Parent
  \/ Children
  \/ FirstChild
  \/ LastChild
  \/ NextSibling
  \/ PrevSibling

SpecBridge == InitBridge /\ [][NextBridge]_vars

(***************************************************************************)
(* The sandbox specification: runScopeFunction calls.  A call runs without *)
(* interruption up to its first await (of getQuickJs), resumes when the    *)
(* loader promise has settled, and then its wrapped code is evaluated: the *)
(* user function does any sequence of api and proxy calls, and returns,    *)
(* throws, or goes on until the engine interrupts it.                      *)
(***************************************************************************)
\* the call ends: the promise of runScopeFunction settles (and the values of
\* the evaluation are gone)
Settle(c, outcome, result, cause) ==
  calls' = [calls EXCEPT ![c].pc = "done",
                         ![c].cur = RetNull,
                         ![c].outcome = outcome,
                         ![c].result = result,
                         ![c].cause = cause,
                         ![c].completions = @ + 1]

\* runInSandbox ends on what the engine did
Finish(c, ev, cause) ==
  LET s == runInSandboxSettle(ev) IN Settle(c, s.outcome, s.result, cause)

\* runScopeFunction(functionCode, html, url, options), up to await getQuickJs()
RunScopeFunction(c) ==
  /\ calls[c].pc = "idle"
  /\ LET validationError == validateFunctionSyntax(calls[c].functionCode)
     IN IF validationError # "null"
          THEN /\ Settle(c, "returned", ResultError(validationError), "validation")
               /\ UNCHANGED <<quickJsLoader, loadCalls>>
          ELSE LET w == WrapScopeFunction(NewBridge(calls[c].html),
                                          calls[c].functionCode,
                                          calls[c].html, calls[c].url)
               IN /\ calls' = [calls EXCEPT
                       ![c].pc = "loading",
                       ![c].bridges = @ + 1,
                       ![c].bridge = w.b,
                       ![c].wrapped = w.code,
                       ![c].handed = TRUE,
                       ![c].execTimeout = executionTimeout(calls[c].timeout)]
                  /\ quickJsLoader' = IF quickJsLoader = "null" THEN "pending"
                                      ELSE quickJsLoader
                  /\ loadCalls' = IF quickJsLoader = "null" THEN loadCalls + 1
                                  ELSE loadCalls
  /\ UNCHANGED outsideSandbox

\* the promise of loadQuickJs(variant) settles
LoaderSettle ==
  /\ quickJsLoader = "pending"
  /\ quickJsLoader' \in {"resolved", "rejected"}
  /\ UNCHANGED <<calls, loadCalls, outsideSandbox>>

\* (a variant for C30: a loader that failed is dropped, to be loaded again)
Resume_ResetOnFailure(c) ==
  /\ calls[c].pc = "loading"
  /\ quickJsLoader \in {"resolved", "rejected"}
  /\ IF quickJsLoader = "resolved"
       THEN /\ calls' = [calls EXCEPT ![c].pc = "eval", ![c].clock = 0,
                                      ![c].cur = RetNull]
            /\ UNCHANGED quickJsLoader
       ELSE /\ Finish(c, EvThrow(TRUE, "QuickJS failed to load"), "engine")
            /\ quickJsLoader' = "null"
  /\ UNCHANGED <<loadCalls, outsideSandbox>>

\* await getQuickJs() resumes: runSandboxed starts, or the rejection is caught
Resume(c) ==
  /\ calls[c].pc = "loading"
  /\ quickJsLoader \in {"resolved", "rejected"}
  /\ IF quickJsLoader = "resolved"
       THEN calls' = [calls EXCEPT ![c].pc = "eval", ![c].clock = 0,
                                   ![c].cur = RetNull]
       ELSE Finish(c, EvThrow(TRUE, "QuickJS failed to load"), "engine")
  /\ UNCHANGED <<quickJsLoader, loadCalls, outsideSandbox>>

Evaluating(c) == calls[c].pc = "eval"

\* the user function calls api.$ or api.$$
\* a method or getter of the API returned r to the user function, or threw
\* inside it
ApiReturns(c, r) ==
  IF r = RetThrow
    THEN Finish(c, EvFail("not a function"), "exception")
    ELSE calls' = [calls EXCEPT ![c].cur = r]

EvalApi(c) ==
  /\ Evaluating(c)
  /\ \E s \in Selectors \cup ObjectPrototype :
       \E r \in {ApiQuery(calls[c].wrapped, s), ApiQueryAll(calls[c].wrapped, s)} :
         ApiReturns(c, r)
  /\ UNCHANGED <<quickJsLoader, loadCalls, outsideSandbox>>

\* what the methods and getters of the proxy n return
ProxyResults(w, n) ==
  {NodeChildren(w, n), NodeFirstChild(w, n), NodeLastChild(w, n),
   NodeNextSibling(w, n), NodePrevSibling(w, n)}
  \cup {NodeQuery(w, n, s) : s \in Selectors}
  \cup {NodeQueryAll(w, n, s) : s \in Selectors}
  \cup {NodeClosest(w, n, s) : s \in Selectors}
  \cup {NodeParent(w, n, s) : s \in Selectors \cup {<<>>}}

\* the user function calls a method or a getter of a node proxy it holds
EvalNode(c) ==
  /\ Evaluating(c)
  /\ \E i \in DOMAIN calls[c].cur.items :
       \E r \in ProxyResults(calls[c].wrapped, calls[c].cur.items[i]) :
         ApiReturns(c, r)
  /\ UNCHANGED <<quickJsLoader, loadCalls, outsideSandbox>>

\* the user function returns the value it holds
EvalReturn(c) ==
  /\ Evaluating(c)
  /\ Finish(c, EvOk(calls[c].cur), "ok")
  /\ UNCHANGED <<quickJsLoader, loadCalls, outsideSandbox>>

\* the wrapped code does not compile, the code is no function, or the user
\* function throws: evalCode resolves to a failure, with a message or without
EvalError(c) ==
  /\ Evaluating(c)
  /\ \E msg \in {"SyntaxError", "Function execution error", ""} :
       Finish(c, EvFail(msg), "exception")
  /\ UNCHANGED <<quickJsLoader, loadCalls, outsideSandbox>>

\* runSandboxed throws, an Error or another value
EngineThrow(c) ==
  /\ Evaluating(c)
  /\ \E ev \in {EvThrow(TRUE, "out of memory"), EvThrow(TRUE, ""), EvThrow(FALSE, "")} :
       Finish(c, ev, "engine")
  /\ UNCHANGED <<quickJsLoader, loadCalls, outsideSandbox>>

\* time passes during the evaluation
Tick(c) ==
  /\ Evaluating(c)
  /\ calls[c].execTimeout = 0 \/ calls[c].clock < calls[c].execTimeout
  /\ \E now \in {calls[c].clock + 1, calls[c].execTimeout} :
       /\ now > calls[c].clock
       /\ now = calls[c].execTimeout \/ now <= MaxFineTicks
       /\ calls' = [calls EXCEPT ![c].clock = now]
  /\ UNCHANGED <<quickJsLoader, loadCalls, outsideSandbox>>

\* the engine interrupts the evaluation at executionTimeout (0: no limit)
Preempt(c) ==
  /\ Evaluating(c)
  /\ calls[c].execTimeout > 0
  /\ calls[c].clock >= calls[c].execTimeout
  /\ Finish(c, EvFail("interrupted"), "timeout")
  /\ UNCHANGED <<quickJsLoader, loadCalls, outsideSandbox>>

NextSandbox ==
  \/ \E c \in CallIds : RunScopeFunction(c)
  \/ LoaderSettle
  \/ \E c \in CallIds : Resume(c)
  \/ \E c \in CallIds : EvalApi(c)
  \/ \E c \in CallIds : EvalNode(c)
  \/ \E c \in CallIds : EvalReturn(c)
  \/ \E c \in CallIds : EvalError(c)
  \/ \E c \in CallIds : EngineThrow(c)
  \/ \E c \in CallIds : Tick(c)
  \/ \E c \in CallIds : Preempt(c)

\* one call, with any code, document and timeout of the model
InitSandbox ==
  /\ BridgeIdle
  /\ ServerIdle
  /\ ScopeIdle
  /\ ContentIdle
  /\ \E code \in Codes, html \in Htmls, url \in Urls, timeout \in OptTimeouts :
       calls = [c \in CallIds |->
                  IF c = "a" THEN NewCall("idle", code, html, url, timeout)
                  ELSE AbsentCall]
  /\ quickJsLoader = "null"
  /\ loadCalls = 0

SpecSandbox == InitSandbox /\ [][NextSandbox]_vars

\* two calls, made in any order and interleaved in any way
InitPair ==
  /\ BridgeIdle
  /\ ServerIdle
  /\ ScopeIdle
  /\ ContentIdle
  /\ calls \in [CallIds -> {NewCall("idle", code, html, url, <<>>) :
                              code \in PairCodes, html \in {1, 2}, url \in Urls}]
  /\ quickJsLoader = "null"
  /\ loadCalls = 0

SpecPair == InitPair /\ [][NextSandbox]_vars

\* the scheduling the runtime guarantees: the loader settles, a settled
\* promise resumes its awaiter, time passes during an evaluation and the
\* engine's interrupt fires when it is due
SpecSandboxFair ==
  /\ InitSandbox
  /\ [][NextSandbox]_vars
  /\ WF_vars(LoaderSettle)
  /\ \A c \in CallIds :
       /\ WF_vars(Resume(c))
       /\ WF_vars(Tick(c))
       /\ WF_vars(Preempt(c))

(***************************************************************************)
(* The scope specification: one call of validateScope or parseScopeArg,    *)
(* with any of the values above.                                           *)
(***************************************************************************)
InitScope ==
  /\ BridgeIdle
  /\ ServerIdle
  /\ calls = [c \in CallIds |-> AbsentCall]
  /\ quickJsLoader = "null"
  /\ loadCalls = 0
  /\ ContentIdle
  /\ scopeCall \in
       {ScopeCallOf("validateScope", obj, <<>>, Undefined) : obj \in ScopeObjects}
       \cup {ScopeCallOf("parseScopeArg", NoScope, arg, excludeArg) :
               arg \in ScopeArgs, excludeArg \in ExcludeArgs}
       \cup {ScopeCallOf("scopeToString", scope, <<>>, Undefined) : scope \in Scopes}
  /\ scopeResult = ScopeError("")

ValidateScope ==
  /\ scopeCall.pc = "called"
  /\ scopeCall.fn = "validateScope"
  /\ scopeResult' = validateScope(scopeCall.obj)
  /\ scopeCall' = [scopeCall EXCEPT !.pc = "returned"]
  /\ UNCHANGED outsideScope

ParseScopeArg ==
  /\ scopeCall.pc = "called"
  /\ scopeCall.fn = "parseScopeArg"
  /\ scopeResult' = parseScopeArg(scopeCall.arg, scopeCall.excludeArg)
  /\ scopeCall' = [scopeCall EXCEPT !.pc = "returned"]
  /\ UNCHANGED outsideScope

\* parseScopeArg(scopeToString(scope)): the string is kept in arg
ScopeToString ==
  /\ scopeCall.pc = "called"
  /\ scopeCall.fn = "scopeToString"
  /\ scopeResult' = parseScopeArg(scopeToString(scopeCall.obj), Undefined)
  /\ scopeCall' = [scopeCall EXCEPT !.pc = "returned",
                                    !.arg = scopeToString(scopeCall.obj)]
  /\ UNCHANGED outsideScope

NextScope == ValidateScope \/ ParseScopeArg \/ ScopeToString

SpecScope == InitScope /\ [][NextScope]_vars

(***************************************************************************)
(* The text specification: one call of extractBlockAwareText on an element *)
(* subtree, or of cleanText on a text and then on its own output.          *)
(***************************************************************************)
InitText ==
  /\ BridgeIdle
  /\ ServerIdle
  /\ calls = [c \in CallIds |-> AbsentCall]
  /\ quickJsLoader = "null"
  /\ loadCalls = 0
  /\ ScopeIdle
  /\ contentCall \in
       {[fn |-> "extractBlockAwareText", node |-> e, text |-> <<>>, applied |-> 0] :
          e \in ElementTrees}
       \cup {[fn |-> "cleanText", node |-> TextNode(<<>>), text |-> s, applied |-> 0] :
               s \in Texts}
  /\ contentResult = <<>>

\* serializeNode computes the text field of a snapshot
ExtractBlockAwareText ==
  /\ contentCall.fn = "extractBlockAwareText"
  /\ contentCall.applied = 0
  /\ contentResult' = extractBlockAwareText(contentCall.node)
  /\ contentCall' = [contentCall EXCEPT !.applied = 1]
  /\ UNCHANGED outsideContent

\* cleanText is applied to the text, and then to what it returned
CleanText ==
  /\ contentCall.fn = "cleanText"
  /\ contentCall.applied < 2
  /\ contentResult' = cleanText(IF contentCall.applied = 0 THEN contentCall.text
                                ELSE contentResult)
  /\ contentCall' = [contentCall EXCEPT
                       !.applied = @ + 1,
                       !.text = IF contentCall.applied = 0 THEN @ ELSE contentResult]
  /\ UNCHANGED outsideContent

NextText == ExtractBlockAwareText \/ CleanText

SpecText == InitText /\ [][NextText]_vars

(***************************************************************************)
(* The pages extractContent is called with.  A page is the parsed root,    *)
(* with or without a body, over up to MaxBlocks blocks.                    *)
(***************************************************************************)
MaxBlocks == 2

\* a text of 99 characters and one of 100
Words99 == <<"w98", "a">>
Words100 == <<"w98", "a", "a">>

\* an element that holds one text
Holding(key, tag, id, classes, role, text) ==
  HtmlElement(key, tag, id, classes, role, <<>>, <<HtmlText(text)>>)

\* the blocks a page is made of; key is the key of the block
Blocks(key) ==
  { Holding(key, "nav", "", {}, "", <<"N">>),
    Holding(key, "article", "", {}, "", <<"A">>),
    Holding(key, "main", "", {}, "", Words99),
    Holding(key, "main", "", {}, "", Words100),
    Holding(key, "article", "", {}, "", <<" ">> \o Words100 \o <<"\n">>),
    Holding(key, "article", "", {}, "", <<" ">> \o Words99 \o <<" ">>),
    Holding(key, "div", "", {"content"}, "", Words100),
    Holding(key, "div", "main", {}, "", Words100),
    Holding(key, "div", "", {}, "main", Words100),
    Holding(key, "div", "ads", {}, "", <<"a">>),
    Holding(key, "div", "", {"ads", "box"}, "", <<"a">>),
    Holding(key, "div", "nav", {}, "", <<"a">>),
    Holding(key, "div", "", {}, "complementary", <<"a">>),
    Holding(key, "script", "", {}, "", <<"a">>),
    Holding(key, "svg", "", {}, "", <<"a">>),
    HtmlElement(key, "img", "", {}, "", <<"data:", "a">>, <<>>),
    HtmlElement(key, "img", "", {}, "", <<"http:", "a">>, <<>>),
    Plainly(key, "article",
      << HtmlText(Words100),
         Holding(key \o <<1>>, "div", "", {"ad"}, "", <<"a">>),
         Holding(key \o <<2>>, "div", "navbar", {}, "", <<"a">>),
         Plainly(key \o <<3>>, "p",
           << Holding(key \o <<3, 1>>, "footer", "", {}, "", <<"a">>),
              Holding(key \o <<3, 2>>, "style", "", {}, "", <<"a">>),
              HtmlElement(key \o <<3, 3>>, "img", "", {}, "", <<"data:", "a">>, <<>>) >>) >>) }

\* the sequences of up to MaxBlocks blocks, the k-th block with key <<k>>
BlockLists ==
  UNION { { s \in [1..n -> UNION { Blocks(<<k>>) : k \in 1..n }] :
              \A k \in 1..n : s[k].key = <<k>> } : n \in 0..MaxBlocks }

\* the parsed pages: the root over a body over the blocks, or over the blocks
Pages ==
  { Plainly(<<>>, "#root", <<Plainly(<<0>>, "body", blocks)>>) : blocks \in BlockLists }
    \cup { Plainly(<<>>, "#root", blocks) : blocks \in BlockLists }

\* <body><nav>N</nav><article>A</article></body>
NavArticlePage ==
  Plainly(<<>>, "#root",
    <<Plainly(<<0>>, "body",
        << Holding(<<1>>, "nav", "", {}, "", <<"N">>),
           Holding(<<2>>, "article", "", {}, "", <<"A">>) >>)>>)

\* extractContent has not been called in this mode
NotExtracted ==
  [root |-> NoElement, content |-> NoElement, innerHTML |-> <<>>, text |-> <<>>]

InitExtract ==
  /\ BridgeIdle
  /\ ServerIdle
  /\ calls = [c \in CallIds |-> AbsentCall]
  /\ quickJsLoader = "null"
  /\ loadCalls = 0
  /\ ScopeIdle
  /\ contentCall \in
       {[fn |-> "extractContent", html |-> page, format |-> format, mainOnly |-> {}] :
          page \in Pages, format \in {"html", "text"}}
  /\ contentResult = [main |-> NotExtracted, full |-> NotExtracted]

\* extractContent(html, mainOnly, format), once in Main and once in Full mode
ExtractContent ==
  \E mainOnly \in BOOLEAN \ contentCall.mainOnly :
    /\ contentCall.fn = "extractContent"
    /\ contentResult' =
         [contentResult EXCEPT
            ![IF mainOnly THEN "main" ELSE "full"] =
              extractContent(contentCall.html, mainOnly, contentCall.format)]
    /\ contentCall' = [contentCall EXCEPT !.mainOnly = @ \cup {mainOnly}]
    /\ UNCHANGED outsideContent

NextExtract == ExtractContent

SpecExtract == InitExtract /\ [][NextExtract]_vars

(***************************************************************************)
(* The extractions by scope.                                               *)
(***************************************************************************)
\* the blocks of the pages a selector scope is applied to
SelectorBlocks(key) ==
  { Holding(key, "div", "", {"ads", "box"}, "", <<"a">>),
    Holding(key, "div", "ads", {}, "", <<"a">>),
    Holding(key, "article", "", {}, "", <<"A">>),
    Holding(key, "script", "", {"box"}, "", <<"a">>),
    Plainly(key, "article",
      << HtmlText(Words100),
         Holding(key \o <<1>>, "div", "", {"box"}, "", <<"a">>),
         Plainly(key \o <<2>>, "p",
           << Holding(key \o <<2, 1>>, "div", "", {"ads"}, "", <<"a">>) >>) >>) }

SelectorPages ==
  { Plainly(<<>>, "#root", <<Plainly(<<0>>, "body", blocks)>>) :
      blocks \in UNION { { s \in [1..n -> UNION { SelectorBlocks(<<k>>) : k \in 1..n }] :
                             \A k \in 1..n : s[k].key = <<k>> } : n \in 0..MaxBlocks } }

\* the include and exclude lists of the selector scopes
IncludeSelectors ==
  {TagSel("div"), ClassSel("ads"), ClassSel("box"), IdSel("ads"), TagSel("article")}

IncludeLists ==
  { <<a>> : a \in IncludeSelectors } \cup { <<a, b>> : a, b \in IncludeSelectors }

ExcludeLists == { <<>>, <<ClassSel("ads")>>, <<TagSel("p")>> }

\* the scopes extractWithScope is called with
ExtractScopes ==
  { MainScope, FullScope, AutoScope, FunctionScope, HandlerScope,
    ExtractScope("selector", <<ClassSel("ads"), TagSel("div")>>, <<>>),
    ExtractScope("selector", <<TagSel("article")>>, <<ClassSel("ads")>>) }

\* what the handler lookup may yield
Lookups ==
  { NoLookup, NoHandler, Handler("h", MainScope), Handler("h", FullScope),
    Handler("h", ExtractScope("selector", <<TagSel("article")>>, <<>>)) }

InitScoped ==
  /\ BridgeIdle
  /\ ServerIdle
  /\ calls = [c \in CallIds |-> AbsentCall]
  /\ quickJsLoader = "null"
  /\ loadCalls = 0
  /\ ScopeIdle
  /\ contentCall \in
       {[fn |-> "extractBySelector", html |-> page, format |-> "html",
         scope |-> ExtractScope("selector", include, exclude), lookup |-> NoLookup,
         returned |-> FALSE] :
          page \in SelectorPages, include \in IncludeLists, exclude \in ExcludeLists}
       \cup
       {[fn |-> "extractWithScope", html |-> page, format |-> format,
         scope |-> scope, lookup |-> lookup, returned |-> FALSE] :
          page \in SelectorPages, format \in {"html", "text"},
          scope \in ExtractScopes, lookup \in Lookups}
  /\ contentResult = <<>>

\* extractBySelector(html, include, exclude)
ExtractBySelector ==
  /\ contentCall.fn = "extractBySelector"
  /\ ~contentCall.returned
  /\ contentResult' = extractBySelector(contentCall.html, contentCall.scope.include,
                                        contentCall.scope.exclude)
  /\ contentCall' = [contentCall EXCEPT !.returned = TRUE]
  /\ UNCHANGED outsideContent

\* extractWithScope(html, scope, format, url)
ExtractWithScope ==
  /\ contentCall.fn = "extractWithScope"
  /\ ~contentCall.returned
  /\ contentResult' = extractWithScope(contentCall.html, contentCall.scope,
                                       contentCall.format, contentCall.lookup)
  /\ contentCall' = [contentCall EXCEPT !.returned = TRUE]
  /\ UNCHANGED outsideContent

NextScoped == ExtractBySelector \/ ExtractWithScope

SpecScoped == InitScoped /\ [][NextScoped]_vars

(***************************************************************************)
(* The time-to-live of a stored page (utils/ttl.ts).  A ttl string is a    *)
(* sequence of atoms: a run of digits, a whitespace character, a unit word *)
(* or another character.  An instant is a number of milliseconds, kept as  *)
(* its whole seconds and the milliseconds within the second.               *)
(***************************************************************************)
\* the runs of digits of the ttl strings, and parseInt(run, 10)
DigitRuns == {"0", "1", "100"}
parseInt(run) == NumeralValue[run].int

\* s.toLowerCase()
toLowerCase(s) ==
  [k \in DOMAIN s |-> CASE s[k] = "H" -> "h"
                        [] s[k] = "Days" -> "days"
                        [] OTHER -> s[k]]

\* the seconds of one unit: the switch of parseTtl
UnitSeconds(unit) ==
  CASE unit \in {"min", "m"} -> 60
    [] unit \in {"hour", "hours", "h"} -> 60 * 60
    [] unit \in {"day", "days", "d"} -> 24 * 60 * 60
    [] unit \in {"month", "months", "mo"} -> 30 * 24 * 60 * 60
    [] unit \in {"year", "years", "y"} -> 365 * 24 * 60 * 60

Units ==
  {"min", "m", "hour", "hours", "h", "day", "days", "d",
   "month", "months", "mo", "year", "years", "y"}

TtlValue(v) == [threw |-> FALSE, v |-> v]
TtlThrows == [threw |-> TRUE, v |-> Undefined]

\* the string part of parseTtl: str is the trimmed string in lower case
ParseTtlString(str) ==
  IF Len(str) = 1 /\ str[1] \in DigitRuns
    THEN TtlValue(Num(parseInt(str[1]), 0))
  ELSE IF /\ Len(str) >= 2
          /\ str[1] \in DigitRuns
          /\ SkipWs(str, 2) = Len(str)
          /\ str[Len(str)] \in Units
    THEN TtlValue(Num(parseInt(str[1]) * UnitSeconds(str[Len(str)]), 0))
  ELSE TtlValue(Undefined)

\* parseTtl(ttl): what it returns, or that it throws (ttl.trim of a value
\* that is neither a string nor a number)
parseTtl(ttl) ==
  IF ttl = Undefined \/ ttl = Null \/ ttl = Str(<<>>) THEN TtlValue(Undefined)
  ELSE IF typeof(ttl) = "number" THEN TtlValue(ttl)
  ELSE IF typeof(ttl) # "string" THEN TtlThrows
  ELSE ParseTtlString(toLowerCase(trim(ttl.s)))

DEFAULT_TTL == 30 * 24 * 60 * 60


\* parseTtl(...) || DEFAULT_TTL, in seconds
TtlOrDefault(parsed) == IF Truthy(parsed) THEN parsed.int ELSE DEFAULT_TTL

Instant(sec, ms) == [sec |-> sec, ms |-> ms]

\* timestamp + ttl * 1000
PlusSeconds(timestamp, ttl) == Instant(timestamp.sec + ttl, timestamp.ms)

\* a > b, of two instants
Later(a, b) == a.sec > b.sec \/ (a.sec = b.sec /\ a.ms > b.ms)

(***************************************************************************)
(* The pages table (services/database.ts).  A row keeps the columns the    *)
(* queries and the claims speak of; its client is a string or NULL.        *)
(***************************************************************************)
Row(id, client, timestamp, deleteAt) ==
  [id |-> id, client |-> client, timestamp |-> timestamp, deleteAt |-> deleteAt]

\* the null of getPageById
NoPage == Row(<<>>, Null, Instant(0, 0), Instant(0, 0))

\* column = ? in SQL: NULL equals nothing
SqlEquals(column, arg) ==
  column.t = "string" /\ arg.t = "string" /\ column.s = arg.s

\* (a variant for C25: the client is not made part of the query)
ClientClause_Ignored(row, client) == TRUE

\* the clause AND client = ? that a client other than undefined adds
ClientClause(row, client) == client = Undefined \/ SqlEquals(row.client, client)

\* getPageById(id, client) on a table: the row, or null
getPageById(rows, id, client) ==
  LET found == SelectSeq(rows, LAMBDA r : r.id = id /\ ClientClause(r, client))
  IN IF found = <<>> THEN NoPage ELSE found[1]

\* (a variant for C26: the pages come in the order of the table)
getPagesByIds_TableOrder(rows, ids, client) ==
  SelectSeq(rows, LAMBDA r : (\E k \in DOMAIN ids : ids[k] = r.id)
                             /\ ClientClause(r, client))

\* getPagesByIds(ids, client) on a table: the rows of the ids, in the order
\* of the ids
getPagesByIds(rows, ids, client) ==
  IF ids = <<>> THEN <<>>
  ELSE LET selected == SelectSeq(rows, LAMBDA r : (\E k \in DOMAIN ids : ids[k] = r.id)
                                                  /\ ClientClause(r, client))
           Has(id) == \E k \in DOMAIN selected : selected[k].id = id
           Get(id) == selected[CHOOSE k \in DOMAIN selected : selected[k].id = id]
           kept == SelectSeq(ids, Has)
       IN [k \in DOMAIN kept |-> Get(kept[k])]

\* storePage(data) with the id generatePageId gives: the table after the
\* INSERT, or that it throws (the id is the primary key)
storePage(rows, data) ==
  IF \E k \in DOMAIN rows : rows[k].id = data.id
    THEN [ok |-> FALSE, rows |-> rows]
    ELSE [ok |-> TRUE, rows |-> Append(rows, data)]

(***************************************************************************)
(* The HTTP server (the request handler of Bun.serve).  A request carries  *)
(* its parameters and the environment it meets: whether the database is    *)
(* configured and answers, whether the page can be fetched, how the scope  *)
(* function fares in the sandbox, the id generatePageId gives and the      *)
(* time.  A handler gives the response, what it did on the way (effects),  *)
(* and the table it leaves.                                                *)
(***************************************************************************)
Environment(db, fetch, sandbox, newId, now) ==
  [db |-> db, fetch |-> fetch, sandbox |-> sandbox, newId |-> newId, now |-> now]

Handled(status, error, id, results, effects, rows) ==
  [status |-> status, error |-> error, id |-> id, results |-> results,
   effects |-> effects, rows |-> rows]

\* jsonResponse({error}, status)
ErrorResponse(status, error, effects, rows) ==
  Handled(status, error, <<>>, <<>>, effects, rows)

\* new DatabaseService(): it throws when TURSO_URL is not set
DatabaseServiceThrows(env) == env.db = "unset"

\* db.init(): CREATE TABLE IF NOT EXISTS; it throws when the database is not
\* reachable
InitThrows(env) == env.db = "initFails"

\* a statement after init throws when the database fails on it
ExecuteThrows(env) == env.db = "queryFails"

\* s.startsWith("http://") || s.startsWith("https://")
IsHttpUrl(s) == At(s, 1) \in {"http://", "https://"}

\* ["html", "markdown", "text"].includes(format)
IsFormat(format) == format \in {Str(<<"html">>), Str(<<"markdown">>), Str(<<"text">>)}

\* opts.format || "markdown"
Format(req) == IF Truthy(req.format) THEN req.format ELSE Str(<<"markdown">>)

\* a data parameter: none, the names of the plugins it asks for, or a
\* string that starts with "{" and is not JSON
NoData == [kind |-> "none", names |-> <<>>]
DataNames(names) == [kind |-> "names", names |-> names]
DataBadJson == [kind |-> "badjson", names |-> <<>>]

\* parseDataParam(data): the DataRequest (null: no names), or that it throws
parseDataParam(data) ==
  IF data.kind = "badjson"
    THEN [ok |-> FALSE, names |-> <<>>, error |-> "Invalid JSON in data parameter"]
    ELSE [ok |-> TRUE, names |-> data.names, error |-> ""]

\* the plugins registry
plugins == {"headings"}

\* runPlugins(html, requested) throws for a name that is not registered
runPluginsThrows(names) == \E k \in DOMAIN names : names[k] \notin plugins

\* the type of a validated scope
ScopeType(scope) ==
  IF typeof(scope.v) = "string" THEN scope.v.s[1] ELSE scope.fields["type"].s[1]

\* the scope of POST /fetch: opts.scope ? validateScope(opts.scope) : "main"
PostScope(scope) ==
  IF Truthy(scope.v) THEN validateScope(scope) ELSE ScopeOk(Plain(Str(<<"main">>)))

\* the scope parameter of GET /fetch as a value: JSON.parse of a parameter
\* that starts with "{", and the string otherwise
ScopeParamValue(param) ==
  IF At(param, 1) = "{" THEN JSONparse(param)
  ELSE [ok |-> TRUE, value |-> Plain(Str(param))]

ValidateParsed(parsed) ==
  IF parsed.ok THEN validateScope(parsed.value) ELSE ScopeError("SyntaxError")

\* the scope of GET /fetch: the scope parameter is a simple string or JSON
GetScope(scopeParam) ==
  ValidateParsed(ScopeParamValue(IF scopeParam = <<>> THEN <<"main">> ELSE scopeParam))

\* the store options of POST /fetch: none, true, or an object
NoStore == [given |-> FALSE, object |-> FALSE, ttl |-> Undefined, client |-> Undefined]
StoreTrue == [given |-> TRUE, object |-> FALSE, ttl |-> Undefined, client |-> Undefined]
StoreObject(ttl, client) == [given |-> TRUE, object |-> TRUE, ttl |-> ttl, client |-> client]

\* x || null, of a client
OrNull(client) == IF Truthy(client) THEN client ELSE Null

\* the ttl and the client of the row, or that parseTtl threw
StoreOptions(ok, ttl, client) == [ok |-> ok, ttl |-> ttl, client |-> client]

ParsedOptions(parsed, client) ==
  StoreOptions(~parsed.threw, TtlOrDefault(parsed.v), OrNull(client))

\* what the store block of POST /fetch settles before the insert
PostStoreOptions(store) ==
  ParsedOptions(parseTtl(IF store.object THEN store.ttl ELSE Undefined),
                IF store.object THEN store.client ELSE Undefined)

\* client || url.searchParams.get("client") || null
ClientOr(client, clientParam) == IF Truthy(client) THEN client ELSE OrNull(clientParam)

\* the try around JSON.parse and parseTtl in GET /fetch: an error keeps the
\* default ttl and no client
TriedOptions(parsed, fields, clientParam) ==
  IF parsed.threw THEN StoreOptions(TRUE, DEFAULT_TTL, OrNull(clientParam))
  ELSE StoreOptions(TRUE, TtlOrDefault(parsed.v),
                    ClientOr(Prop(fields, "client"), clientParam))

JsonOptions(json, clientParam) ==
  IF json.ok THEN TriedOptions(parseTtl(Prop(json.value.fields, "ttl")),
                               json.value.fields, clientParam)
  ELSE StoreOptions(TRUE, DEFAULT_TTL, OrNull(clientParam))

\* what the store block of GET /fetch settles: a store parameter that starts
\* with "{" is JSON, another one is the ttl
GetStoreOptions(storeParam, clientParam) ==
  IF At(storeParam, 1) = "{" THEN JsonOptions(JSONparse(storeParam), clientParam)
  ELSE StoreOptions(TRUE, TtlOrDefault(parseTtl(Str(storeParam)).v), OrNull(clientParam))

StoreResult(id, effects, rows) == [id |-> id, effects |-> effects, rows |-> rows]

\* the INSERT of the store block
InsertRow(env, data, stored, effects, rows) ==
  IF ExecuteThrows(env) \/ ~stored.ok
    THEN StoreResult(<<>>, effects \o <<"db.init", "db.insert">>, rows)
    ELSE StoreResult(data.id, effects \o <<"db.init", "db.insert">>, stored.rows)

\* the row to insert
PageData(env, options) ==
  Row(env.newId, options.client, env.now, PlusSeconds(env.now, options.ttl))

PutPage(env, data, effects, rows) ==
  InsertRow(env, data, storePage(rows, data), effects, rows)

\* the store block of /fetch, in its own try: what it appends to the effects,
\* the id it adds to the result and the table it leaves
StoreBlock(env, options, effects, rows) ==
  IF InitThrows(env) \/ ~options.ok
    THEN StoreResult(<<>>, effects \o <<"db.init">>, rows)
    ELSE PutPage(env, PageData(env, options), effects, rows)

\* extractWithScope of a function scope runs the function in the sandbox; a
\* failure there reaches the handler as a FunctionScopeError
ExtractEffects(scope) ==
  IF ScopeType(scope) = "function" THEN <<"extract", "sandbox">> ELSE <<"extract">>

ExtractThrows(env, scope) == ScopeType(scope) = "function" /\ env.sandbox # "ok"

\* the effects of the fetch, the extraction and the plugins
AfterExtract(req, scope) ==
  IF req.content THEN <<"fetch">> \o ExtractEffects(scope) ELSE <<"fetch">>

AfterPlugins(req, scope, names) ==
  IF names # <<>> THEN Append(AfterExtract(req, scope), "plugins")
  ELSE AfterExtract(req, scope)

\* the response of a /fetch whose store block has run
StoredResponse(block) == Handled(200, "", block.id, <<>>, block.effects, block.rows)

\* whether storing is asked for, and its options
Storing(req) ==
  IF req.route = "POST /fetch" THEN req.store.given ELSE req.storeParam # <<>>

RequestOptions(req) ==
  IF req.route = "POST /fetch" THEN PostStoreOptions(req.store)
  ELSE GetStoreOptions(req.storeParam, req.client)

\* the part of /fetch after the validation: the fetch, the extraction, the
\* plugins, the storage and the response; an exception is answered 400 when
\* it is a FunctionScopeError and 500 otherwise
FetchAndRespond(req, env, scope, names, rows) ==
  IF env.fetch # "ok"
    THEN ErrorResponse(500, "fetch failed", <<"fetch">>, rows)
  ELSE IF req.content /\ ExtractThrows(env, scope)
    THEN ErrorResponse(400, env.sandbox, AfterExtract(req, scope), rows)
  ELSE IF names # <<>> /\ runPluginsThrows(names)
    THEN ErrorResponse(500, "Unknown data plugin", AfterPlugins(req, scope, names), rows)
  ELSE IF Storing(req)
    THEN StoredResponse(StoreBlock(env, RequestOptions(req),
                                   AfterPlugins(req, scope, names), rows))
  ELSE Handled(200, "", <<>>, <<>>, AfterPlugins(req, scope, names), rows)

\* (a variant for C28: the page is fetched before the format and the data
\* parameter are looked at)
ValidateThenFetch_FetchFirst(req, env, scope, rows) ==
  LET data == parseDataParam(req.data)
  IN IF ~scope.ok THEN ErrorResponse(400, scope.error, <<>>, rows)
     ELSE IF ~IsFormat(Format(req))
       THEN ErrorResponse(400, "Format must be \"html\", \"markdown\", or \"text\"",
                          <<"fetch">>, rows)
     ELSE IF ~data.ok THEN ErrorResponse(400, data.error, <<"fetch">>, rows)
     ELSE FetchAndRespond(req, env, scope.scope, data.names, rows)

\* the checks of the format and of the data parameter, and then the rest
ValidateThenFetch(req, env, scope, rows) ==
  LET data == parseDataParam(req.data)
  IN IF ~scope.ok THEN ErrorResponse(400, scope.error, <<>>, rows)
     ELSE IF ~IsFormat(Format(req))
       THEN ErrorResponse(400, "Format must be \"html\", \"markdown\", or \"text\"",
                          <<>>, rows)
     ELSE IF ~data.ok THEN ErrorResponse(400, data.error, <<>>, rows)
     ELSE FetchAndRespond(req, env, scope.scope, data.names, rows)

\* POST /fetch and GET /fetch
fetchHandler(req, rows) ==
  LET env == req.env
      url == req.url
  IN IF DatabaseServiceThrows(env)
       THEN ErrorResponse(500, "TURSO_URL environment variable is not set", <<>>, rows)
     ELSE IF ~Truthy(url) THEN ErrorResponse(400, "URL is required", <<>>, rows)
     ELSE IF typeof(url) # "string"
       THEN ErrorResponse(500, "body.url.startsWith is not a function", <<>>, rows)
     ELSE IF ~IsHttpUrl(url.s)
       THEN ErrorResponse(400, "URL must start with http:// or https://", <<>>, rows)
     ELSE ValidateThenFetch(req, env,
                            IF req.route = "POST /fetch" THEN PostScope(req.scope)
                            ELSE GetScope(req.scopeParam),
                            rows)

\* GET /pages/:id and POST /get.  The client of the GET is the query
\* parameter || undefined; the client of the POST is body.client as it is
getHandler(req, rows) ==
  LET env == req.env
      client == IF req.route = "GET /pages/:id" /\ ~Truthy(req.client)
                THEN Undefined ELSE req.client
      page == getPageById(rows, req.id.s, client)
  IN IF DatabaseServiceThrows(env)
       THEN ErrorResponse(500, "TURSO_URL environment variable is not set", <<>>, rows)
     ELSE IF ~Truthy(req.id) THEN ErrorResponse(400, "ID is required", <<>>, rows)
     ELSE IF InitThrows(env) THEN ErrorResponse(500, "init", <<"db.init">>, rows)
     ELSE IF ExecuteThrows(env)
       THEN ErrorResponse(500, "execute", <<"db.init", "db.select">>, rows)
     ELSE IF page = NoPage
       THEN ErrorResponse(404, "Page not found", <<"db.init", "db.select">>, rows)
     ELSE Handled(200, "", page.id, <<page>>, <<"db.init", "db.select">>, rows)

\* POST /gets
getsHandler(req, rows) ==
  LET env == req.env
      ids == [k \in DOMAIN req.ids.a |-> req.ids.a[k].s]
      found == getPagesByIds(rows, ids, req.client)
  IN IF DatabaseServiceThrows(env)
       THEN ErrorResponse(500, "TURSO_URL environment variable is not set", <<>>, rows)
     ELSE IF ~Truthy(req.ids) \/ req.ids.t # "array"
       THEN ErrorResponse(400, "IDs array is required", <<>>, rows)
     ELSE IF Len(req.ids.a) = 0 THEN Handled(200, "", <<>>, <<>>, <<>>, rows)
     ELSE IF Len(req.ids.a) > 100
       THEN ErrorResponse(400, "Maximum 100 IDs per request", <<>>, rows)
     ELSE IF InitThrows(env) THEN ErrorResponse(500, "init", <<"db.init">>, rows)
     ELSE IF ExecuteThrows(env)
       THEN ErrorResponse(500, "execute", <<"db.init", "db.select">>, rows)
     ELSE Handled(200, "", <<>>, found, <<"db.init", "db.select">>, rows)

\* POST /store
storeHandler(req, rows) ==
  LET env == req.env
      parsed == parseTtl(req.ttl)
      timestamp == env.now
      data == Row(env.newId, OrNull(req.client), timestamp,
                  PlusSeconds(timestamp, TtlOrDefault(parsed.v)))
      stored == storePage(rows, data)
  IN IF DatabaseServiceThrows(env)
       THEN ErrorResponse(500, "TURSO_URL environment variable is not set", <<>>, rows)
     ELSE IF ~Truthy(req.url) THEN ErrorResponse(400, "URL is required", <<>>, rows)
     ELSE IF ~IsHttpUrl(req.url.s)
       THEN ErrorResponse(400, "URL must start with http:// or https://", <<>>, rows)
     ELSE IF ~req.content
       THEN ErrorResponse(400, "At least one of body, content, or data is required",
                          <<>>, rows)
     ELSE IF InitThrows(env) THEN ErrorResponse(500, "init", <<"db.init">>, rows)
     ELSE IF parsed.threw
       THEN ErrorResponse(500, "ttl.trim is not a function", <<"db.init">>, rows)
     ELSE IF ExecuteThrows(env) \/ ~stored.ok
       THEN ErrorResponse(500, "execute", <<"db.init", "db.insert">>, rows)
     ELSE Handled(200, "", data.id, <<data>>, <<"db.init", "db.insert">>, stored.rows)

(***************************************************************************)
(* The server specification: one request on a table, handled at once.      *)
(***************************************************************************)
\* the table before the request: pages of the clients a and b and one of no
\* client, stored with the default ttl
StoredRow(id, client, sec) ==
  Row(id, client, Instant(sec, 0), Instant(sec + DEFAULT_TTL, 0))

Tables ==
  { <<>>,
    <<StoredRow(<<"p1">>, Str(<<"a">>), 1), StoredRow(<<"p2">>, Str(<<"b">>), 2),
      StoredRow(<<"p3">>, Null, 3)>>,
    <<StoredRow(<<"p3">>, Str(<<"b">>), 1), StoredRow(<<"p1">>, Str(<<"a">>), 2)>> }

PageIds == {<<"p1">>, <<"p2">>, <<"p3">>, <<"p4">>}

DbStates == {"unset", "up", "initFails", "queryFails"}

\* the environments of a request that reads pages
ReadEnvironments ==
  {Environment(db, "ok", "ok", <<"n1">>, Instant(10, 0)) : db \in DbStates}

\* the environments of a request that may store a page
AllEnvironments ==
  {Environment(db, fetch, sandbox, newId, Instant(10, 500)) :
     db \in DbStates, fetch \in {"ok", "fails"},
     sandbox \in {"ok", "syntax", "timeout", "exception"},
     newId \in {<<"n1">>, <<"p1">>}}

PlainEnvironments ==
  {Environment(db, "ok", sandbox, <<"n1">>, Instant(10, 500)) :
     db \in {"unset", "up"}, sandbox \in {"ok", "timeout"}}

ClientValues == {Undefined, Null, Str(<<>>), Str(<<"a">>), Str(<<"b">>)}
ClientParams == {Null, Str(<<>>), Str(<<"a">>), Str(<<"b">>)}

\* the ids arrays of POST /gets: up to MaxIdsLen ids, and arrays of 100 and
\* of 101 ids
MaxIdsLen == 3
IdArrays ==
  {Arr([k \in 1..n |-> Str(<<"p1">>)]) : n \in {100, 101}}
  \cup UNION {{Arr([k \in 1..n |-> Str(f[k])]) : f \in [1..n -> PageIds]} :
                n \in 0..MaxIdsLen}

TtlStrings ==
  { <<>>, <<"100">>, <<"0">>, <<"1", "h">>, <<"100", "min">>, <<"1", " ", "Days">>,
    <<" ", "1", "H", " ">>, <<"100", "mo">>, <<"1", "y">>, <<"0", "d">>,
    <<"-1">>, <<"1.5">>, <<"x">>, <<"1", "s">>, <<"1", "h", "x">>, <<"true">> }

TtlValues ==
  {Undefined, Null, Num(0, 0), Num(100, 0), Num(-1, 0), Bool(TRUE)}
  \cup {Str(s) : s \in TtlStrings}

RequestUrls == {Undefined, Str(<<"ftp://", "a">>), Str(<<"http://", "a">>),
         Str(<<"https://", "a">>)}

Formats == {Undefined, Str(<<"html">>), Str(<<"pdf">>)}

\* searchParams.get gives null for a parameter that is not there
GetUrls == {Null, Str(<<"ftp://", "a">>), Str(<<"http://", "a">>), Str(<<"https://", "a">>)}
GetFormats == {Null, Str(<<"html">>), Str(<<"pdf">>)}

DataParams == {NoData, DataNames(<<"headings">>), DataNames(<<"headings", "nope">>),
               DataBadJson}

FunctionObject == Object(TypeField("function") @@ ("code" :> Str(<<"(", "x", ")", "=", ">", "x">>)))

PostScopes ==
  { NoScope, Plain(Str(<<"full">>)), Plain(Str(<<"other">>)), Plain(Num(1, 0)),
    FunctionObject, Object(TypeField("function")), Object(TypeField("selector")) }

FunctionParam ==
  <<"{", "\"type\"", ":", "\"function\"", ",", "\"code\"", ":", "\"(x)=>x\"", "}">>

GetScopeParams ==
  { <<>>, <<"full">>, <<"other">>, <<"{">>, FunctionParam,
    <<"{", "\"type\"", ":", "\"selector\"", "}">> }

PostStores ==
  { NoStore, StoreTrue, StoreObject(Str(<<"1", "h">>), Str(<<"a">>)),
    StoreObject(Num(-1, 0), Undefined), StoreObject(Bool(TRUE), Str(<<"a">>)),
    StoreObject(Num(0, 0), Str(<<>>)), StoreObject(Str(<<"x">>), Str(<<"b">>)) }

GetStoreParams ==
  { <<>>, <<"true">>, <<"1", "h">>, <<"-1">>, <<"{">>,
    <<"{", "\"ttl\"", ":", "-1", "}">>, <<"{", "\"ttl\"", ":", "true", "}">>,
    <<"{", "\"ttl\"", ":", "100", "}">> }

FetchRequest(route, url, scope, scopeParam, format, data, content, store,
             storeParam, client, env) ==
  [route |-> route, url |-> url, scope |-> scope, scopeParam |-> scopeParam,
   format |-> format, data |-> data, content |-> content, store |-> store,
   storeParam |-> storeParam, client |-> client, env |-> env]

\* the requests to /fetch: every combination of the validated parameters in
\* a plain environment, and every storage request in every environment
PostFetchRequests ==
  { FetchRequest("POST /fetch", url, scope, <<>>, format, data, content, store,
                 <<>>, Null, env) :
      url \in RequestUrls, scope \in PostScopes, format \in Formats, data \in DataParams,
      content \in BOOLEAN, store \in {NoStore, StoreTrue}, env \in PlainEnvironments }
  \cup
  { FetchRequest("POST /fetch", Str(<<"http://", "a">>), scope, <<>>, Undefined,
                 data, TRUE, store, <<>>, Null, env) :
      scope \in {NoScope, FunctionObject},
      data \in {NoData, DataNames(<<"headings">>)},
      store \in PostStores, env \in AllEnvironments }
  \cup
  { FetchRequest("POST /fetch", Num(1, 0), NoScope, <<>>, Undefined, NoData, TRUE,
                 NoStore, <<>>, Null, env) : env \in PlainEnvironments }

GetFetchRequests ==
  { FetchRequest("GET /fetch", url, NoScope, scopeParam, format, data, content,
                 NoStore, storeParam, Null, env) :
      url \in GetUrls, scopeParam \in GetScopeParams,
      format \in GetFormats, data \in DataParams,
      content \in BOOLEAN, storeParam \in {<<>>, <<"true">>},
      env \in PlainEnvironments }
  \cup
  { FetchRequest("GET /fetch", Str(<<"https://", "a">>), NoScope, scopeParam, Null,
                 NoData, TRUE, NoStore, storeParam, client, env) :
      scopeParam \in {<<>>, FunctionParam},
      storeParam \in GetStoreParams, client \in {Null, Str(<<"a">>)},
      env \in AllEnvironments }

StoreRequests ==
  { [route |-> "POST /store", url |-> url, content |-> content, ttl |-> ttl,
     client |-> client, env |-> env] :
      url \in RequestUrls, content \in BOOLEAN, ttl \in TtlValues,
      client \in {Undefined, Str(<<"a">>)},
      env \in {Environment(db, "ok", "ok", newId, Instant(10, 500)) :
                 db \in DbStates, newId \in {<<"n1">>, <<"p1">>}} }

GetRequests ==
  { [route |-> "GET /pages/:id", id |-> Str(id), client |-> client, env |-> env] :
      id \in PageIds, client \in ClientParams, env \in ReadEnvironments }
  \cup
  { [route |-> "POST /get", id |-> id, client |-> client, env |-> env] :
      id \in {Undefined} \cup {Str(i) : i \in PageIds}, client \in ClientValues,
      env \in ReadEnvironments }

GetsRequests ==
  { [route |-> "POST /gets", ids |-> ids, client |-> client, env |-> env] :
      ids \in IdArrays \cup {Undefined, Str(<<"p1">>)}, client \in ClientValues,
      env \in ReadEnvironments }

InitServer ==
  /\ BridgeIdle
  /\ calls = [c \in CallIds |-> AbsentCall]
  /\ quickJsLoader = "null"
  /\ loadCalls = 0
  /\ ScopeIdle
  /\ ContentIdle
  /\ response = <<>>
  /\ \/ /\ \/ request \in PostFetchRequests
           \/ request \in GetFetchRequests
           \/ request \in StoreRequests
        /\ pages \in Tables \ {<<>>}
     \/ /\ \/ request \in GetRequests
           \/ request \in GetsRequests
        /\ pages \in Tables

\* the handler answers: the response and the table it leaves
Respond(handled) ==
  /\ response = <<>>
  /\ response' = [status |-> handled.status, error |-> handled.error,
                  id |-> handled.id, results |-> handled.results,
                  effects |-> handled.effects]
  /\ pages' = handled.rows
  /\ UNCHANGED <<request, outsideServer>>

PostFetch == request.route = "POST /fetch" /\ Respond(fetchHandler(request, pages))
GetFetch == request.route = "GET /fetch" /\ Respond(fetchHandler(request, pages))
PostStore == request.route = "POST /store" /\ Respond(storeHandler(request, pages))
GetPage == request.route = "GET /pages/:id" /\ Respond(getHandler(request, pages))
PostGet == request.route = "POST /get" /\ Respond(getHandler(request, pages))
PostGets == request.route = "POST /gets" /\ Respond(getsHandler(request, pages))

NextServer == PostFetch \/ GetFetch \/ PostStore \/ GetPage \/ PostGet \/ PostGets

SpecServer == InitServer /\ [][NextServer]_vars

(***************************************************************************)
(* C1.  Bridge uniqueness: every snapshot the bridge returns for one       *)
(* element carries the same _id (an id is issued only for an element that  *)
(* has none yet).  serializeNode issues a fresh id on every call, so the   *)
(* statement fails as soon as one element is returned twice.               *)
(***************************************************************************)
C1_SameElementSameId ==
  \A x \in returned, y \in returned : x[2] = y[2] => x[1] = y[1]

\* an element has been returned twice
C1_Witness ==
  \E x \in returned, y \in returned : x[2] = y[2] /\ x[1] # y[1]

(***************************************************************************)
(* Helpers of the statements about the sandbox.                            *)
(***************************************************************************)
\* two returned values hold the same snapshots in the same order: every field
\* but _id (the element stands for text, html, outerHtml, attrs, classes)
SameSnapshots(r1, r2) ==
  /\ r1.kind = r2.kind
  /\ Len(r1.items) = Len(r2.items)
  /\ \A i \in DOMAIN r1.items :
       i \in DOMAIN r2.items
         => /\ r1.items[i].el = r2.items[i].el
            /\ r1.items[i].tag = r2.items[i].tag

\* the node proxies the user function of call c holds
HeldProxies(c) ==
  IF calls[c].pc = "eval"
    THEN {calls[c].cur.items[i] : i \in DOMAIN calls[c].cur.items}
    ELSE {}

\* the selectors that are string literal arguments in the code of call c
LiteralSelectors(c) ==
  {extractSelectorsFromCode(calls[c].functionCode)[k] :
     k \in DOMAIN extractSelectorsFromCode(calls[c].functionCode)}

(***************************************************************************)
(* C2.  For every node proxy n and every selector s that is a string       *)
(* literal argument in the user code, n.$(s), n.$$(s) and n.closest(s)     *)
(* return the snapshots that the bridge's childQuery, childQueryAll and    *)
(* closest return for n._id and s.  The wrapped code never fills           *)
(* __childQueryCache, __childQueryAllCache and __closestCache, so the      *)
(* proxies return null / [] where the bridge finds elements.               *)
(***************************************************************************)
C2_ProxyQueriesMatchBridge ==
  \A c \in CallIds : \A n \in HeldProxies(c) : \A s \in LiteralSelectors(c) :
    /\ SameSnapshots(NodeQuery(calls[c].wrapped, n, s),
                     childQuery(calls[c].bridge, n._id, s).r)
    /\ SameSnapshots(NodeQueryAll(calls[c].wrapped, n, s),
                     childQueryAll(calls[c].bridge, n._id, s).r)
    /\ SameSnapshots(NodeClosest(calls[c].wrapped, n, s),
                     closest(calls[c].bridge, n._id, s).r)

(***************************************************************************)
(* C3.  For every node proxy reachable in the sandbox, children,           *)
(* firstChild, lastChild, nextSibling, prevSibling and parent() return     *)
(* what the bridge returns for that element.  generateBridgeResults reads  *)
(* the keys of allNodes once, so only the nodes of the top-level queries   *)
(* get cache entries: a proxy reached by traversal has none.               *)
(***************************************************************************)
C3_ProxyTraversalMatchesBridge ==
  \A c \in CallIds : \A n \in HeldProxies(c) :
    /\ SameSnapshots(NodeChildren(calls[c].wrapped, n), children(calls[c].bridge, n._id).r)
    /\ SameSnapshots(NodeFirstChild(calls[c].wrapped, n), firstChild(calls[c].bridge, n._id).r)
    /\ SameSnapshots(NodeLastChild(calls[c].wrapped, n), lastChild(calls[c].bridge, n._id).r)
    /\ SameSnapshots(NodeNextSibling(calls[c].wrapped, n), nextSibling(calls[c].bridge, n._id).r)
    /\ SameSnapshots(NodePrevSibling(calls[c].wrapped, n), prevSibling(calls[c].bridge, n._id).r)
    /\ SameSnapshots(NodeParent(calls[c].wrapped, n, <<>>), parent(calls[c].bridge, n._id, <<>>).r)

(***************************************************************************)
(* C4.  runInSandbox and runScopeFunction never throw: a call completes    *)
(* exactly once, with {ok: true, data} when the evaluation succeeds and    *)
(* with {ok: false, error} on a rejected code, a timeout, a syntax error,  *)
(* a thrown exception or a failure of the engine.                          *)
(***************************************************************************)
C4_NeverThrows ==
  \A c \in CallIds :
    /\ calls[c].outcome # "threw"
    /\ calls[c].pc = "done"
         => /\ calls[c].outcome = "returned"
            /\ calls[c].completions = 1
            /\ calls[c].result.ok <=> calls[c].cause = "ok"
            /\ calls[c].result.ok => calls[c].result.key = "data"
            /\ ~calls[c].result.ok => calls[c].result.key = "error"
    /\ calls[c].pc # "done"
         => calls[c].outcome = "pending" /\ calls[c].completions = 0

\* the engine has thrown, and the call has returned a failure
C4_Witness ==
  \E c \in CallIds :
    /\ calls[c].pc = "done"
    /\ calls[c].cause = "engine"
    /\ calls[c].clock > 0
    /\ calls[c].result = ResultError("Unknown sandbox error")

(***************************************************************************)
(* C5.  Every runScopeFunction call eventually completes, exactly once; an *)
(* evaluation that does not end by itself is interrupted at the configured *)
(* timeout (5000 ms when none is given) and the call returns a failure.    *)
(* A call is one that was made: its synchronous part up to the first await *)
(* is one step, after which it is done (rejected) or waits for the engine. *)
(***************************************************************************)
C5_EventuallyCompletes ==
  /\ \A c \in CallIds :
       (calls[c].pc \in {"loading", "eval"})
         ~> (calls[c].pc = "done" /\ calls[c].completions = 1)
  /\ [](\A c \in CallIds :
          /\ calls[c].handed
               => calls[c].execTimeout =
                    (IF calls[c].timeout = <<>> THEN 5000 ELSE calls[c].timeout[1])
          /\ calls[c].cause = "timeout"
               => /\ calls[c].clock = calls[c].execTimeout
                  /\ ~calls[c].result.ok
                  /\ calls[c].result.key = "error"
          /\ calls[c].completions <= 1)

\* a call without a timeout option was interrupted at 5000 ms
C5_Witness ==
  \E c \in CallIds :
    /\ calls[c].pc = "done"
    /\ calls[c].cause = "timeout"
    /\ calls[c].timeout = <<>>
    /\ calls[c].clock = 5000

(***************************************************************************)
(* C6.  runScopeFunction rejects, before any DOMBridge is constructed and  *)
(* before any evaluation starts, every code whose trimmed text does not    *)
(* begin with "(...) =>", "function(" or "(function" and every code that   *)
(* contains "document.", "fetch(" or "await fetch"; all other code is      *)
(* handed to the sandbox.  The patterns of validateFunctionSyntax differ:  *)
(* "." does not match a line break, so "(x,\nx) =>" is rejected, and \b    *)
(* lets "xfetch(" and "xawait fetch" pass.                                 *)
(***************************************************************************)
\* the text holds the atoms of `part` at consecutive positions
Contains(t, part) ==
  \E i \in 1..Len(t) :
    i + Len(part) - 1 <= Len(t) /\ SubSeq(t, i, i + Len(part) - 1) = part

\* the first position after the whitespace that follows position i
AfterWs(t, i) ==
  CHOOSE k \in (i + 1)..(Len(t) + 1) :
    /\ \A m \in (i + 1)..(k - 1) : t[m] \in Whitespace
    /\ At(t, k) \notin Whitespace

\* the first two atoms of the text that are not whitespace
Head2(t) ==
  LET s == SelectSeq(t, LAMBDA a : a \notin Whitespace)
  IN <<At(s, 1), At(s, 2)>>

\* begins with "(...) =>", "function(" or "(function", whitespace aside
ClaimedStart(t) ==
  \/ /\ At(t, 1) = "("
     /\ \E j \in 2..Len(t) :
          t[j] = ")" /\ Head2(SubSeq(t, j + 1, Len(t))) = <<"=", ">">>
  \/ Head2(t) = <<"function", "(">>
  \/ Head2(t) = <<"(", "function">>

\* contains "document.", "fetch(" or "await fetch" (whitespace as the code
\* allows it, and no matter what stands before)
ClaimedForbidden(t) ==
  \/ Contains(t, <<"document", ".">>)
  \/ \E i \in 1..Len(t) : t[i] = "fetch" /\ At(t, AfterWs(t, i)) = "("
  \/ \E i \in 1..Len(t) :
       t[i] = "await" /\ AfterWs(t, i) > i + 1 /\ At(t, AfterWs(t, i)) = "fetch"

\* the state of a call that was rejected before a bridge or an evaluation
RejectedEarly(c) ==
  /\ calls[c].pc = "done"
  /\ ~calls[c].result.ok
  /\ calls[c].result.key = "error"
  /\ calls[c].bridges = 0
  /\ ~calls[c].handed
  /\ calls[c].cause = "validation"

\* the claim as stated: a code is rejected early if and only if it does not
\* begin as claimed or contains one of the three texts
C6_RejectsAsClaimed ==
  \A c \in CallIds :
    calls[c].pc \notin {"absent", "idle"}
      => LET t == trim(calls[c].functionCode)
         IN IF ~ClaimedStart(t) \/ ClaimedForbidden(t)
              THEN RejectedEarly(c)
              ELSE calls[c].handed /\ calls[c].bridges = 1

(***************************************************************************)
(* C7.  Sandbox isolation: every call builds its own DOMBridge, whose ids  *)
(* start at 1, and its own wrapped code; two calls with the same code,     *)
(* html, url and timeout get the same wrapped code and the same bridge     *)
(* state, and reject the same code with the same result, however the calls *)
(* are ordered and interleaved.                                            *)
(***************************************************************************)
SameInputs(c1, c2) ==
  /\ calls[c1].functionCode = calls[c2].functionCode
  /\ calls[c1].html = calls[c2].html
  /\ calls[c1].url = calls[c2].url
  /\ calls[c1].timeout = calls[c2].timeout

ScopeReturned(fn) == scopeCall.pc = "returned" /\ scopeCall.fn = fn

\* an array whose elements are all strings
ArrayOfStrings(v) == IsArray(v) /\ \A k \in DOMAIN v.a : v.a[k].t = "string"

\* a number from 1 to 60000
InTimeoutRange(v) ==
  /\ v.t = "number"
  /\ ~v.nan
  /\ v.int >= 1
  /\ v.int < 60000 \/ (v.int = 60000 /\ v.frac = 0)

\* the invariants of the data model on a scope
ScopeInvariants(scope) ==
  /\ Prop(scope.fields, "type") = Str(<<"selector">>)
       => /\ IsArray(Prop(scope.fields, "include"))
          /\ Len(Prop(scope.fields, "include").a) >= 1
  /\ Prop(scope.fields, "type") = Str(<<"function">>)
       => /\ Prop(scope.fields, "code").t = "string"
          /\ Prop(scope.fields, "code").s # <<>>
          /\ "timeout" \in DOMAIN scope.fields
               => InTimeoutRange(scope.fields["timeout"])

\* an object that would violate them if it were returned as it is
ViolatesInvariants(obj) ==
  \/ /\ Prop(obj.fields, "type") = Str(<<"selector">>)
     /\ ~IsArray(Prop(obj.fields, "include")) \/ Prop(obj.fields, "include").a = <<>>
  \/ /\ Prop(obj.fields, "type") = Str(<<"function">>)
     /\ \/ Prop(obj.fields, "code").t # "string"
        \/ Prop(obj.fields, "code").s = <<>>
        \/ /\ Prop(obj.fields, "timeout").t = "number"
           /\ ~InTimeoutRange(Prop(obj.fields, "timeout"))

(***************************************************************************)
(* C8.  Every scope that validateScope or parseScopeArg returns has a      *)
(* non-empty include list if it is a selector scope, and a non-empty code  *)
(* and, if any, a timeout from 1 to 60000 if it is a function scope; an    *)
(* input that violates this, and "selector:" with no non-empty selector    *)
(* after it, is rejected with an error.                                    *)
(***************************************************************************)
C8_ScopeInvariants ==
  scopeCall.pc = "returned"
    => /\ scopeResult.ok => ScopeInvariants(scopeResult.scope)
       /\ ~scopeResult.ok => scopeResult.error # "" /\ scopeResult.scope = NoScope
       /\ scopeCall.fn = "validateScope" /\ ViolatesInvariants(scopeCall.obj)
            => ~scopeResult.ok
       /\ (/\ scopeCall.fn = "parseScopeArg"
           /\ At(scopeCall.arg, 1) = "selector:"
           /\ \A i \in 2..Len(scopeCall.arg) :
                scopeCall.arg[i] \in Whitespace \cup {","})
            => ~scopeResult.ok

\* parseScopeArg has returned a function scope with the largest timeout
C8_Witness ==
  /\ ScopeReturned("parseScopeArg")
  /\ scopeResult.ok
  /\ Prop(scopeResult.scope.fields, "type") = Str(<<"function">>)
  /\ Prop(scopeResult.scope.fields, "timeout") = Num(60000, 0)

(***************************************************************************)
(* C9.  validateScope accepts a selector scope only if include is a        *)
(* non-empty array of strings and exclude, when present, is an array of    *)
(* strings; an object without type and an unknown type are rejected.       *)
(* The code checks Array.isArray only, and skips an exclude that is falsy. *)
(***************************************************************************)
C9_SelectorFieldsChecked ==
  ScopeReturned("validateScope") /\ scopeCall.obj.v = Obj
    => /\ "type" \notin DOMAIN scopeCall.obj.fields => ~scopeResult.ok
       /\ Prop(scopeCall.obj.fields, "type")
            \notin {Str(<<"selector">>), Str(<<"function">>), Str(<<"handler">>)}
            => ~scopeResult.ok
       /\ Prop(scopeCall.obj.fields, "type") = Str(<<"selector">>) /\ scopeResult.ok
            => /\ ArrayOfStrings(Prop(scopeCall.obj.fields, "include"))
               /\ Len(Prop(scopeCall.obj.fields, "include").a) >= 1
               /\ "exclude" \in DOMAIN scopeCall.obj.fields
                    => ArrayOfStrings(scopeCall.obj.fields["exclude"])

(***************************************************************************)
(* C10.  validateScope accepts the timeout of a function scope, when it is *)
(* present, only if it is an integer from 1 to 60000: 1 and 60000 are      *)
(* accepted, 0 and 60001 rejected, and so is every value that is not an    *)
(* integer or not a number.  The code converts with Number() and checks    *)
(* the range only.                                                         *)
(***************************************************************************)
C10_TimeoutIntegerInRange ==
  (/\ ScopeReturned("validateScope")
   /\ Prop(scopeCall.obj.fields, "type") = Str(<<"function">>)
   /\ Prop(scopeCall.obj.fields, "code").t = "string"
   /\ trim(Prop(scopeCall.obj.fields, "code").s) # <<>>
   /\ "timeout" \in DOMAIN scopeCall.obj.fields)
    => (scopeResult.ok
          <=> /\ InTimeoutRange(scopeCall.obj.fields["timeout"])
              /\ scopeCall.obj.fields["timeout"].frac = 0)

(***************************************************************************)
(* C11.  parseScopeArg(scopeToString(S)) = S for every scope S that is not *)
(* a function scope: for "main", "full", "auto" and every selector scope.  *)
(* scopeToString writes a selector scope as "selector:[a,b]", and          *)
(* parseScopeArg keeps the brackets in the first and the last selector.    *)
(***************************************************************************)
C11_RoundTrip ==
  ScopeReturned("scopeToString")
    /\ (\/ typeof(scopeCall.obj.v) = "string"
        \/ Prop(scopeCall.obj.fields, "type") = Str(<<"selector">>))
    => scopeResult.ok /\ scopeResult.scope = scopeCall.obj

(***************************************************************************)
(* C12.  The text of every snapshot is in normal form: no two consecutive  *)
(* newlines, no two consecutive spaces, no space next to a newline, no     *)
(* whitespace at the start or the end.  extractBlockAwareText collapses    *)
(* the newlines before it removes the spaces next to them, so a space      *)
(* between two newlines leaves two consecutive newlines.                   *)
(***************************************************************************)
NormalForm(t) ==
  /\ \A i \in 1..(Len(t) - 1) :
       /\ ~(t[i] = "\n" /\ t[i + 1] = "\n")
       /\ ~(t[i] = " " /\ t[i + 1] = " ")
       /\ ~(t[i] = " " /\ t[i + 1] = "\n")
       /\ ~(t[i] = "\n" /\ t[i + 1] = " ")
  /\ t # <<>> => t[1] \notin Whitespace /\ t[Len(t)] \notin Whitespace

C12_TextNormalForm ==
  contentCall.fn = "extractBlockAwareText" /\ contentCall.applied = 1
    => NormalForm(contentResult)

RECURSIVE ElementsBelow(_)
\* the elements below a node
ElementsBelow(node) ==
  UNION { {node.childNodes[k]} \cup ElementsBelow(node.childNodes[k]) :
            k \in { j \in 1..Len(node.childNodes) : node.childNodes[j].tag # "#text" } }

\* the keys of the elements below a node
Survivors(node) == { el.key : el \in ElementsBelow(node) }

\* extractContent has returned in Main mode, in Full mode
MainExtracted == contentCall.fn = "extractContent" /\ TRUE \in contentCall.mainOnly
FullExtracted == contentCall.fn = "extractContent" /\ FALSE \in contentCall.mainOnly

\* C13: in the Text format the boundaries between block elements appear as
\* newlines: for <body><nav>N</nav><article>A</article></body> the Main
\* scope yields "A" and the Full scope yields "N\nA".
C13_TextBlockBoundaries ==
  (contentCall.fn = "extractContent" /\ contentCall.html = NavArticlePage
     /\ contentCall.format = "text")
    => /\ MainExtracted => contentResult.main.text = <<"A">>
       /\ FullExtracted => contentResult.full.text = <<"N", "\n", "A">>


(***************************************************************************)
(* C14.  cleanText applied to its own output returns that output, for      *)
(* every text.                                                             *)
(***************************************************************************)
C14_CleanTextIdempotent ==
  contentCall.fn = "cleanText" /\ contentCall.applied = 2
    => contentResult = contentCall.text

\* cleanText changed a text with blank lines, and was applied to its output
C14_Witness ==
  /\ contentCall.fn = "cleanText"
  /\ contentCall.applied = 2
  /\ contentResult = <<"a", " ", "a">>
  /\ contentCall.text = <<"a", " ", "a">>

\* the candidates of the Main scope, in the order the claim gives
ClaimedCandidates ==
  <<TagSel("main"), RoleSel("main"), TagSel("article"), ClassSel("content"),
    ClassSel("post"), ClassSel("article"), ClassSel("entry"),
    IdSel("content"), IdSel("main"), ClassSel("main")>>

\* the k-th candidate of the page that is left after the removals
CandidateAt(root, k) == HtmlQuerySelector(root, ClaimedCandidates[k])

\* the candidate is there and its trimmed text has at least 100 characters
LongEnough(el) == el # NoElement /\ TextLength(trim(textContent(el))) >= 100

\* the body of the page, or the root of a page without one
BodyOrRoot(root) ==
  IF \E el \in ElementsBelow(root) : el.tag = "body"
    THEN HtmlQuerySelector(root, TagSel("body"))
    ELSE root

\* C15: the Main scope selects as container the first candidate, in the
\* order main, [role=main], article, .content, .post, .article, .entry,
\* #content, #main, .main, whose trimmed text has at least 100 characters
\* (100 qualifies, 99 does not); with no such candidate it selects the body,
\* and without a body the root.  The Full scope never selects a candidate.
C15_MainContainer ==
  /\ MainExtracted =>
       LET root == contentResult.main.root
           content == contentResult.main.content
           Qualifying == { k \in 1..Len(ClaimedCandidates) : LongEnough(CandidateAt(root, k)) }
       IN IF Qualifying = {} THEN content = BodyOrRoot(root)
          ELSE \E k \in Qualifying :
                 /\ \A j \in Qualifying : k <= j
                 /\ content = CandidateAt(root, k)
  /\ FullExtracted =>
       contentResult.full.content = BodyOrRoot(contentResult.full.root)

\* the Main scope passed over a main element of 99 characters and chose an
\* article whose trimmed text has exactly 100
C15_Witness ==
  /\ MainExtracted
  /\ contentResult.main.content.tag = "article"
  /\ TextLength(trim(textContent(contentResult.main.content))) = 100
  /\ \E el \in ElementsBelow(contentResult.main.root) :
       el.tag = "main" /\ TextLength(trim(textContent(el))) = 99

\* the names the claim gives for the ids and classes of boilerplate
BoilerplateNames ==
  {"nav", "navbar", "header", "footer", "sidebar", "menu", "advertisement",
   "ads", "ad"}

\* C16: the Main scope removes every element whose id or class is one of
\* nav, navbar, header, footer, sidebar, menu, advertisement, ads, ad, and
\* every nav, header, footer, aside and form element and every element with
\* the role navigation, banner, contentinfo or complementary, at any depth:
\* no such element is in the content it emits.
C16_MainRemovesBoilerplate ==
  MainExtracted =>
    \A el \in ElementsBelow(contentResult.main.content) :
      /\ el.id \notin BoilerplateNames
      /\ el.classes \cap BoilerplateNames = {}
      /\ el.tag \notin {"nav", "header", "footer", "aside", "form"}
      /\ el.role \notin {"navigation", "banner", "contentinfo", "complementary"}

\* C17: the elements that survive in the Main scope are a subset of those
\* that survive in the Full scope, and the output of neither scope holds a
\* script, style, noscript, iframe or svg element or an img whose src
\* begins with "data:".
C17_MainWithinFull ==
  /\ (MainExtracted /\ FullExtracted) =>
       /\ Survivors(contentResult.main.root) \subseteq Survivors(contentResult.full.root)
       /\ Survivors(contentResult.main.content)
            \subseteq Survivors(contentResult.full.content)
  /\ \A r \in { contentResult.main.content : x \in { y \in {1} : MainExtracted } }
            \cup { contentResult.full.content : x \in { y \in {1} : FullExtracted } } :
       \A el \in ElementsBelow(r) :
         /\ el.tag \notin {"script", "style", "noscript", "iframe", "svg"}
         /\ ~IsDataImage(el)

\* both scopes were extracted from a page that has an svg element, a style
\* element and an image with a data: source, and the Main scope kept fewer
\* elements than the Full scope
C17_Witness ==
  /\ MainExtracted /\ FullExtracted
  /\ \E el \in ElementsBelow(contentCall.html) : el.tag = "svg"
  /\ \E el \in ElementsBelow(contentCall.html) : el.tag = "style"
  /\ \E el \in ElementsBelow(contentCall.html) : IsDataImage(el)
  /\ Survivors(contentResult.main.content) # Survivors(contentResult.full.content)
  /\ Survivors(contentResult.main.content) # {}

\* the elements of the page, after the removals every scope makes, that
\* the k-th include selector matches
MatchedBy(html, include, k) ==
  { el.key : el \in { e \in ElementsBelow(RemoveWhere(RemoveSelectors(html, alwaysRemove, 1),
                                                      DataImages)) :
                        HtmlMatches(e, include[k]) } }

\* the first include selector that matches the element
FirstMatchOf(html, include, key) ==
  CHOOSE k \in 1..Len(include) :
    /\ key \in MatchedBy(html, include, k)
    /\ \A j \in 1..(k - 1) : key \notin MatchedBy(html, include, j)

C19_ScopeResolution ==
  (contentCall.fn = "extractWithScope" /\ contentCall.returned) =>
    /\ contentCall.scope.type \in {"main", "full", "selector", "function"} =>
         /\ contentResult.ok
         /\ contentResult.scopeResolution.scopeUsed = contentCall.scope
         /\ ~contentResult.scopeResolution.scopeResolved
    /\ contentCall.scope.type = "auto" =>
         /\ contentResult.ok
         /\ contentResult.scopeResolution.scopeResolved
         /\ contentResult.scopeResolution.scopeUsed =
              IF contentCall.lookup.found THEN contentCall.lookup.scope ELSE MainScope

\* an auto extraction without a handler lookup returned the Main content
C19_Witness ==
  /\ contentCall.fn = "extractWithScope" /\ contentCall.returned
  /\ contentCall.scope = AutoScope
  /\ contentCall.lookup = NoLookup
  /\ contentResult.ok
  /\ contentResult.content = extractContent(contentCall.html, TRUE, contentCall.format)
  /\ contentResult.scopeResolution = ScopeResolution(MainScope, TRUE, "")

\* the step is the bridge call `res`, and the call returned `nothing` and
\* left the next id and the id-to-element map as they were
Absorbed(res, nothing) ==
  BridgeCall(res) =>
    /\ ret' = nothing
    /\ bridge'.nextId = bridge.nextId
    /\ bridge'.nodeMap = bridge.nodeMap

\* the id was never issued by the bridge
NeverIssued(id) == id \notin DOMAIN bridge.nodeMap

\* C20: on a DOMBridge an operation given an id that was never issued
\* returns null (childQuery, closest, parent, firstChild, lastChild,
\* nextSibling, prevSibling) or an empty list (childQueryAll, children), and
\* an operation given an invalid CSS selector returns null or an empty list
\* without throwing; in both cases the next id and the id-to-element map of
\* the bridge are left unchanged.
C20_AbsorbsUnknownIdsAndInvalidSelectors ==
  [][ /\ \A id \in { i \in CallerIds : NeverIssued(i) } :
           /\ \A s \in Selectors \cup {<<>>} :
                /\ Absorbed(childQuery(bridge, id, s), RetNull)
                /\ Absorbed(childQueryAll(bridge, id, s), RetList(<<>>))
                /\ Absorbed(closest(bridge, id, s), RetNull)
                /\ Absorbed(parent(bridge, id, s), RetNull)
           /\ Absorbed(children(bridge, id), RetList(<<>>))
           /\ Absorbed(firstChild(bridge, id), RetNull)
           /\ Absorbed(lastChild(bridge, id), RetNull)
           /\ Absorbed(nextSibling(bridge, id), RetNull)
           /\ Absorbed(prevSibling(bridge, id), RetNull)
      /\ \A s \in { t \in Selectors \cup {<<>>} : ~SelectorValid(t) } :
           /\ Absorbed(querySelector(bridge, s, 0), RetNull)
           /\ Absorbed(querySelectorAll(bridge, s, 0), RetList(<<>>))
           /\ \A id \in CallerIds :
                /\ Absorbed(childQuery(bridge, id, s), RetNull)
                /\ Absorbed(childQueryAll(bridge, id, s), RetList(<<>>))
                /\ Absorbed(closest(bridge, id, s), RetNull)
                /\ Absorbed(parent(bridge, id, s), RetNull) ]_vars

\* the step is the lookup that returns r to the user function of call c, and
\* the lookup did not throw and returned `nothing`
Uncached(c, r, nothing) ==
  ApiReturns(c, r) => calls'[c].pc = "eval" /\ calls'[c].cur = nothing

C27_IdsMonotonicAndBound ==
  /\ [](bridge # NoBridge =>
         /\ DOMAIN bridge.nodeMap = 1..(bridge.nextId - 1)
         /\ {p[1] : p \in returned} = 1..(bridge.nextId - 1)
         /\ \A p \in returned : bridge.nodeMap[p[1]] = p[2]
         /\ \A i \in DOMAIN ret.items :
              ret.items[i]._id = bridge.nextId - Len(ret.items) + i - 1)
  /\ [][bridge # NoBridge =>
          /\ bridge'.nextId >= bridge.nextId
          /\ \A id \in DOMAIN bridge.nodeMap :
               id \in DOMAIN bridge'.nodeMap /\ bridge'.nodeMap[id] = bridge.nodeMap[id]
          /\ \A i \in DOMAIN ret'.items :
               ret' # ret => ret'.items[i]._id = bridge.nextId + i - 1]_vars

\* the bridge has issued MaxIds ids, one element has two of them, and the
\* last call returned a list of at least two snapshots
C27_Witness ==
  /\ bridge # NoBridge
  /\ bridge.nextId = MaxIds + 1
  /\ \E p, q \in returned : p[1] # q[1] /\ p[2] = q[2]
  /\ Len(ret.items) >= 2

\* C30: under any interleaving of concurrent runInSandbox calls loadQuickJs
\* is invoked at most once per process: the first call stores the loader
\* promise before it yields, every later call reuses it, and the cached
\* loader is never reset afterwards, also when loading failed.
C30_LoaderLoadedOnce ==
  /\ [](/\ loadCalls <= 1
        /\ loadCalls = 1 <=> quickJsLoader # "null"
        /\ \A c \in CallIds :
             calls[c].pc \in {"loading", "eval"} => quickJsLoader # "null")
  /\ [][/\ quickJsLoader # "null" => quickJsLoader' # "null"
        /\ quickJsLoader \in {"resolved", "rejected"} => quickJsLoader' = quickJsLoader
        /\ loadCalls' >= loadCalls]_vars

\* loading failed, one call has ended on the failure and the other call was
\* made afterwards and waits for the same loader
C30_Witness ==
  /\ quickJsLoader = "rejected"
  /\ loadCalls = 1
  /\ \E c, d \in CallIds :
       /\ calls[c].pc = "done" /\ calls[c].cause = "engine"
       /\ calls[d].pc = "loading"

(***************************************************************************)
(* The claims about the server.  They speak of the request that was        *)
(* answered: its parameters as the handler reads them.                     *)
(***************************************************************************)
FetchAnswered ==
  response # <<>> /\ request.route \in {"POST /fetch", "GET /fetch"}

\* the url, the scope, the format and the data parameter of the request are
\* valid
UrlValid ==
  Truthy(request.url) /\ typeof(request.url) = "string" /\ IsHttpUrl(request.url.s)

RequestedScope ==
  IF request.route = "POST /fetch" THEN PostScope(request.scope)
  ELSE GetScope(request.scopeParam)

FormatValid == IsFormat(Format(request))
DataValid == parseDataParam(request.data).ok
AllValid == UrlValid /\ RequestedScope.ok /\ FormatValid /\ DataValid

\* the request is valid and its scope is a function that fails in the
\* sandbox, by its syntax, a timeout or an exception
FunctionScopeFails ==
  /\ AllValid
  /\ request.env.fetch = "ok"
  /\ request.content
  /\ ScopeType(RequestedScope.scope) = "function"
  /\ request.env.sandbox \in {"syntax", "timeout", "exception"}

\* the request is valid and names a plugin that is not registered
NamesUnknownPlugin ==
  /\ AllValid
  /\ \E k \in DOMAIN request.data.names : request.data.names[k] # "headings"

\* the request is valid and nothing but the storage can fail
OnlyStorageCanFail ==
  /\ AllValid
  /\ request.env.fetch = "ok"
  /\ ~(request.content /\ ScopeType(RequestedScope.scope) = "function"
       /\ request.env.sandbox # "ok")
  /\ \A k \in DOMAIN request.data.names : request.data.names[k] = "headings"

\* C22: at the HTTP boundary of /fetch (GET and POST) an invalid scope and
\* every failure of a function scope (syntax check, timeout, thrown
\* exception) are answered 400 with the body {error: message}; only
\* failures of other kinds are answered 500.
C22_ScopeFailuresAnswered400 ==
  FetchAnswered =>
    /\ (UrlValid /\ ~RequestedScope.ok) =>
         response.status = 400 /\ response.error = RequestedScope.error
    /\ FunctionScopeFails =>
         response.status = 400 /\ response.error = request.env.sandbox
    /\ response.status = 500 =>
         ~(UrlValid /\ ~RequestedScope.ok) /\ ~FunctionScopeFails

\* C23: a failure of the database storage never fails a fetch: /fetch (GET
\* and POST) still returns the fetch result, without an id, when the
\* database is not configured or not reachable or when init or the insert
\* fails, whether or not storing was requested.
C23_StorageFailureNeverFailsFetch ==
  (FetchAnswered /\ OnlyStorageCanFail) =>
    /\ response.status = 200
    /\ request.env.db # "up" => response.id = <<>>

\* C24: a /fetch request that names an unknown data plugin is answered with
\* 400 Bad Request and an {error} body (here: also when the database is
\* configured and the page is fetched).
C24_UnknownPluginAnswered400 ==
  (FetchAnswered /\ NamesUnknownPlugin /\ request.env.db = "up"
     /\ request.env.fetch = "ok" /\ request.env.sandbox = "ok") =>
    response.status = 400 /\ response.error # ""

\* C28: for POST /fetch and GET /fetch the outbound fetch of the target URL
\* happens only after the url, the scope, the format and the data parameter
\* have all been validated: a request rejected for any of them causes no
\* outbound fetch, no sandbox evaluation and no database write.
C28_ValidationBeforeFetch ==
  [][request.route \in {"POST /fetch", "GET /fetch"} =>
       /\ ~AllValid =>
            /\ response'.effects = <<>>
            /\ pages' = pages
       /\ response'.status = 400 /\ response'.effects # <<>> => AllValid
       /\ response'.effects # <<>> =>
            AllValid /\ response'.effects[1] = "fetch"]_vars

\* a request with a valid url and a valid function scope that asks for the
\* content and for storage was rejected for its format
C28_Witness ==
  /\ FetchAnswered
  /\ response.status = 400
  /\ UrlValid /\ RequestedScope.ok /\ ~FormatValid
  /\ ScopeType(RequestedScope.scope) = "function"
  /\ request.content
  /\ request.store.given \/ request.storeParam # <<>>
  /\ response.effects = <<>>

\* the client a reading request supplies: the query parameter of the GET
\* when it is not empty, the client property of the body when it is there
SuppliedClient ==
  IF request.route = "GET /pages/:id"
    THEN IF Truthy(request.client) THEN request.client ELSE Undefined
    ELSE request.client

ReadAnswered ==
  response # <<>> /\ request.route \in {"GET /pages/:id", "POST /get", "POST /gets"}

\* C25: when a client is supplied to getPageById or getPagesByIds (GET
\* /pages/:id, POST /get, POST /gets), only pages whose client equals it
\* are returned; a page that belongs to another client or to no client
\* yields null / 404 and none of its data is disclosed.
C25_ClientIsolation ==
  (ReadAnswered /\ SuppliedClient # Undefined) =>
    /\ \A k \in DOMAIN response.results :
         response.results[k].client = SuppliedClient
    /\ (/\ request.route \in {"GET /pages/:id", "POST /get"}
        /\ Truthy(request.id)
        /\ request.env.db = "up"
        /\ \E k \in DOMAIN pages :
             pages[k].id = request.id.s /\ pages[k].client # SuppliedClient) =>
         response.status = 404 /\ response.results = <<>> /\ response.id = <<>>

\* the page p1 of the client a was asked for by the client b, and was not
\* found
C25_Witness ==
  /\ ReadAnswered
  /\ request.route = "GET /pages/:id"
  /\ request.id = Str(<<"p1">>)
  /\ SuppliedClient = Str(<<"b">>)
  /\ \E k \in DOMAIN pages : pages[k].id = <<"p1">> /\ pages[k].client = Str(<<"a">>)
  /\ response.status = 404

\* the ids of a POST /gets request whose ids are an array
RequestedIds == [k \in DOMAIN request.ids.a |-> request.ids.a[k].s]

\* there is a page of this id that the request may see: the request
\* supplies no client, or the string that is the client of the page
Visible(id) ==
  \E k \in DOMAIN pages :
    /\ pages[k].id = id
    /\ \/ SuppliedClient = Undefined
       \/ SuppliedClient.t = "string" /\ pages[k].client = SuppliedClient

\* C26: getPagesByIds (POST /gets) returns the found pages in the order of
\* the input ids and omits the ids that are missing, so every returned
\* page's id occurs in the input and the count never exceeds the number of
\* input ids; more than 100 ids are rejected with an error before any
\* database access.
C26_InputOrderAndLimit ==
  (response # <<>> /\ request.route = "POST /gets" /\ request.ids.t = "array") =>
    /\ Len(RequestedIds) > 100 =>
         response.status >= 400 /\ response.effects = <<>> /\ response.results = <<>>
    /\ response.status = 200 =>
         /\ [k \in DOMAIN response.results |-> response.results[k].id]
              = SelectSeq(RequestedIds, Visible)
         /\ \A k \in DOMAIN response.results :
              \E j \in DOMAIN pages : pages[j] = response.results[k]
         /\ Len(response.results) <= Len(RequestedIds)

\* three ids were asked for: the pages of two of them came back in the order
\* of the ids, which is not the order of the table, and one id is missing
C26_Witness ==
  /\ response # <<>>
  /\ request.route = "POST /gets"
  /\ request.ids.t = "array"
  /\ RequestedIds = <<<<"p3">>, <<"p4">>, <<"p1">>>>
  /\ response.status = 200
  /\ Len(response.results) = 2
  /\ pages[1].id = <<"p1">>

\* the TTL value a storing request carries
CarriedTtl ==
  CASE request.route = "POST /store" -> request.ttl
    [] request.route = "POST /fetch" ->
         IF request.store.object THEN request.store.ttl ELSE Undefined
    [] OTHER ->
         IF At(request.storeParam, 1) # "{" THEN Str(request.storeParam)
         ELSE IF JSONparse(request.storeParam).ok
           THEN Prop(JSONparse(request.storeParam).value.fields, "ttl")
         ELSE Undefined

\* the ttl of the claim: the parsed TTL, or the default of 30 days when it is
\* absent, zero or not parsable
ClaimedTtl ==
  LET parsed == parseTtl(CarriedTtl)
  IN IF ~parsed.threw /\ parsed.v.t = "number" /\ parsed.v.int # 0
       THEN parsed.v.int
       ELSE 30 * 24 * 60 * 60

\* the row the answered request wrote
Written(row) ==
  /\ response # <<>>
  /\ request.route \in {"POST /store", "POST /fetch", "GET /fetch"}
  /\ response.status = 200
  /\ response.id # <<>>
  /\ row.id = response.id

\* C29: every page record written by /fetch with store or by POST /store
\* has deleteAt = timestamp + ttl * 1000 with ttl > 0, where ttl is the
\* parsed TTL or the 30-day default when the TTL is absent, zero or not
\* parsable; hence deleteAt > timestamp for every stored record, whatever
\* TTL value the request carries.
C29_DeleteAtAfterTimestamp ==
  \A k \in DOMAIN pages :
    Written(pages[k]) =>
      /\ pages[k].deleteAt = PlusSeconds(pages[k].timestamp, ClaimedTtl)
      /\ ClaimedTtl > 0
      /\ Later(pages[k].deleteAt, pages[k].timestamp)

====
